---- MODULE Spec2Model ----
(***************************************************************************)
(* A model of the SPSS system-file writer of librun/sav (sav.go and the    *)
(* NativeSav front end).  Strings are sequences of bytes (ASCII codes),    *)
(* the sink is a sequence of bytes with a write position, and the writer   *)
(* is the SpssWriter struct: its dictionary, its two name maps, its        *)
(* counters, its bufio.Writer and its bytecode compressor.                 *)
(***************************************************************************)
EXTENDS Integers, Sequences, FiniteSets, TLC

(***************************************************************************)
(* Arithmetic as Go computes it.                                           *)
(***************************************************************************)

\* Go's integer division truncates toward zero (TLA+'s \div floors).
Quot(a, b) == IF a >= 0 THEN a \div b ELSE -((-a) \div b)

\* Go's % has the sign of the dividend.
Rem(a, b) == a - b * Quot(a, b)

Min(a, b) == IF a <= b THEN a ELSE b

RECURSIVE Pow2(_)
Pow2(n) == IF n = 0 THEN 1 ELSE 2 * Pow2(n - 1)

\* The k-th byte (k = 0..3) of the two's-complement int32 x.
Int32Byte(x, k) ==
    LET p == Pow2(8 * k)
    IN  IF x >= 0 THEN (x \div p) % 256
        ELSE 255 - (((-(x + 1)) \div p) % 256)

\* binary.Write(w, binary.LittleEndian, int32(x)): four bytes, least first.
LE32(x) == << Int32Byte(x, 0), Int32Byte(x, 1), Int32Byte(x, 2), Int32Byte(x, 3) >>

\* The int32 read back from four little-endian bytes.
FromLE32(b) ==
    IF b[4] >= 128
    THEN -(((255 - b[4]) * 16777216 + (255 - b[3]) * 65536
            + (255 - b[2]) * 256 + (255 - b[1])) + 1)
    ELSE b[4] * 16777216 + b[3] * 65536 + b[2] * 256 + b[1]

(***************************************************************************)
(* Strings: sequences of bytes.                                            *)
(***************************************************************************)

\* strings.Repeat(string([]byte{c}), n)
Repeat(c, n) == [i \in 1..n |-> c]

\* s[:l] for l <= len(s)
Take(s, l) == SubSeq(s, 1, l)

\* s[l:] for l <= len(s)
Drop(s, l) == SubSeq(s, l + 1, Len(s))

stobp(s, l, pad) ==
    IF Len(s) > l THEN Take(s, l)
    ELSE IF Len(s) < l THEN s \o Repeat(pad, l - Len(s))
    ELSE s

stob(s, l) ==
    IF Len(s) > l THEN Take(s, l)
    ELSE IF Len(s) < l THEN s \o Repeat(32, l - Len(s))
    ELSE s

trim(s, l) == IF Len(s) > l THEN Take(s, l) ELSE s

IsLower(c) == c >= 97 /\ c <= 122
IsUpper(c) == c >= 65 /\ c <= 90
IsDigit(c) == c >= 48 /\ c <= 57

\* strings.ToUpper on ASCII text.
ToUpper(s) == [i \in 1..Len(s) |-> IF IsLower(s[i]) THEN s[i] - 32 ELSE s[i]]

\* strconv.Itoa for n >= 0.
RECURSIVE Itoa(_)
Itoa(n) == IF n < 10 THEN << 48 + n >> ELSE Itoa(n \div 10) \o << 48 + (n % 10) >>

getAlpabetByInt(s) == IF s >= 10 /\ s <= 35 THEN << 97 + (s - 10) >> ELSE Itoa(s)

RECURSIVE ConvertLoop(_, _)
ConvertLoop(s, result) ==
    LET denom == Rem(s, 36)
        r     == getAlpabetByInt(denom) \o result
    IN  IF Quot(s, 36) >= 1 THEN ConvertLoop(Quot(s - denom, 36), r) ELSE r

ConvertLastDigit(s) == getAlpabetByInt(Rem(s, 36))

ConvertIntToColumnName(s) == ConvertLoop(s, << >>)

elementCountCeil(width) == Quot(width + 7, 8)

elementCount(width) == Quot(width - 1, 8) + 1

\* The characters cleanVarNameRegExp keeps: A-Z a-z 0-9 # $ _ .
IsNameChar(c) ==
    IsLower(c) \/ IsUpper(c) \/ IsDigit(c) \/ c = 35 \/ c = 36 \/ c = 95 \/ c = 46

RECURSIVE StripIllegal(_)
StripIllegal(n) ==
    IF n = << >> THEN << >>
    ELSE (IF IsNameChar(Head(n)) THEN << Head(n) >> ELSE << >>) \o StripIllegal(Tail(n))

\* cleanVarName with the cut to 64 characters moved before the '@' prefix.
cleanVarNameCutFirst(n) ==
    LET n1 == StripIllegal(n)
        n2 == IF Len(n1) = 0 THEN << 105, 108, 108, 101, 103, 97, 108 >> ELSE n1
        n3 == IF Len(n2) > 64 THEN Take(n2, 64) ELSE n2
    IN  IF ~IsLower(n3[1]) /\ ~IsUpper(n3[1]) THEN << 64 >> \o n3 ELSE n3

cleanVarName(n) ==
    LET n1 == StripIllegal(n)
        n2 == IF Len(n1) = 0 THEN << 105, 108, 108, 101, 103, 97, 108 >> ELSE n1
        n3 == IF ~IsLower(n2[1]) /\ ~IsUpper(n2[1]) THEN << 64 >> \o n2 ELSE n2
    IN  IF Len(n3) > 64 THEN Take(n3, 64) ELSE n3

(***************************************************************************)
(* Constants of sav.go.                                                    *)
(***************************************************************************)

maxStringLength == 1024 * 50
maxPrintStringWidth == 40
SPSS_NUMERIC == 0
SPSS_FMT_A == 1
SPSS_FMT_F == 5
SPSS_FMT_DATE == 20
SPSS_FMT_DATE_TIME == 22
SPSS_MLVL_NOM == 1
SPSS_MLVL_ORD == 2
SPSS_MLVL_RAT == 3
DictTypeNumeric == 0
DictTypeDate == 1
DictTypeDatetime == 2
DictTypeString == 3

\* bufio.NewWriter's buffer size (bufio's defaultBufSize).
defaultBufSize == 4096

(***************************************************************************)
(* Var, and the layout functions.                                          *)
(***************************************************************************)

\* A Var as a caller hands it to AddVar: the fields AddVar, SetVar and Start
\* fill in are at their zero values.  PrintFmt is the field Print.
NewVar(name, type, typeSize, print, width, decimals, measure, label, hasDefault, default) ==
    [ ColumnIndex |-> 0, Index |-> 0, Name |-> name, ShortName |-> << >>,
      Type |-> type, TypeSize |-> typeSize, PrintFmt |-> print, Width |-> width,
      Decimals |-> decimals, Measure |-> measure, Label |-> label,
      Default |-> default, HasDefault |-> hasDefault, Labels |-> << >>,
      Value |-> << >>, HasValue |-> FALSE, Segments |-> 0 ]

SegmentWidthWrong(v, index) ==
    IF v.TypeSize <= 255 THEN v.TypeSize
    ELSE IF index < v.Segments - 1 THEN 252
    ELSE v.TypeSize - (v.Segments - 1) * 252

SegmentWidth(v, index) ==
    IF v.TypeSize <= 255 THEN v.TypeSize
    ELSE IF index < v.Segments - 1 THEN 255
    ELSE v.TypeSize - (v.Segments - 1) * 252

\* The loop "for s := from; s < v.Segments; s++ { size += elementCount(...) }".
RECURSIVE SegElementsRange(_, _, _)
SegElementsRange(v, lo, hi) ==
    IF lo > hi THEN 0
    ELSE IF lo = hi THEN elementCount(SegmentWidth(v, lo))
    ELSE SegElementsRange(v, lo, (lo + hi) \div 2)
         + SegElementsRange(v, ((lo + hi) \div 2) + 1, hi)

SegElements(v, from) == SegElementsRange(v, from, v.Segments - 1)

RECURSIVE caseSizeFrom(_, _)
caseSizeFrom(dict, i) ==
    IF i > Len(dict) THEN 0 ELSE SegElements(dict[i], 0) + caseSizeFrom(dict, i + 1)

caseSize(dict) == caseSizeFrom(dict, 1)

RECURSIVE VarCountFrom(_, _)
VarCountFrom(dict, i) ==
    IF i > Len(dict) THEN 0 ELSE dict[i].Segments + VarCountFrom(dict, i + 1)

VarCount(dict) == VarCountFrom(dict, 1)

\* v.Segments as AddVar sets it.
SegmentsOf(typeSize) == IF typeSize > 255 THEN Quot(typeSize + 251, 252) ELSE 1

(***************************************************************************)
(* State.                                                                  *)
(***************************************************************************)

VARIABLES
    Dict,              \* out.Dict: the variables, in insertion order
    DictMap,           \* out.DictMap: name -> position in Dict (the *Var)
    ShortMap,          \* out.ShortMap: short name -> position in Dict
    Count,             \* out.Count
    Index,             \* out.Index
    ColumnIndex,       \* out.ColumnIndex
    IgnoreMissingVar,  \* out.IgnoreMissingVar
    buf,               \* the bufio.Writer's buffered bytes
    werr,              \* the bufio.Writer's sticky error
    bcOps,             \* the compressor's current block: its opcodes so far
    bcData,            \* the compressor's current block: its operand bytes
    file,              \* the sink: the bytes it holds
    pos,               \* the sink: its write offset
    faults,            \* the sink: the outcomes of its next calls (TRUE: succeeds)
    pc,                \* where the caller is: "dict", "cases", "done", "fatal"
    ret,               \* the last call and what it returned
    okCases,           \* how many WriteCase calls returned nil
    nCalls,            \* how many WriteCase calls were made
    recs,              \* the fields Start wrote, in order
    elems,             \* what the last WriteCase handed to the compressor, in order
    fields,            \* the name and payload fields Start wrote, in order
    nvDict,            \* nv.dict: the declarations NewNativeSav was given
    nvLengths,         \* nv.lengths: name -> longest value findLengths saw
    fnIn,              \* the argument of a function called on its own
    fnOut,             \* << >>, or << what the function returned >>
    sinkLog            \* the calls on the sink of the last operation that made any

writerVars == << Dict, DictMap, ShortMap, Count, Index, ColumnIndex, IgnoreMissingVar >>
ioVars == << buf, werr, bcOps, bcData, file, pos, faults, sinkLog >>
histVars == << okCases, nCalls, recs, elems, fields >>
nativeVars == << nvDict, nvLengths >>
fnVars == << fnIn, fnOut >>
vars == << Dict, DictMap, ShortMap, Count, Index, ColumnIndex, IgnoreMissingVar,
           buf, werr, bcOps, bcData, file, pos, faults, pc, ret,
           okCases, nCalls, recs, elems, fields, nvDict, nvLengths,
           fnIn, fnOut, sinkLog >>

Ret(op, err, flushErr) == [op |-> op, err |-> err, flushErr |-> flushErr]

NoRet == Ret("none", FALSE, FALSE)

\* NewSpssWriter over an empty sink: the fields it and Go's zero values set.
InitWriter ==
    /\ Dict = << >>
    /\ DictMap = << >>
    /\ ShortMap = << >>
    /\ Count = 0
    /\ Index = 1
    /\ ColumnIndex = 0
    /\ buf = << >>
    /\ werr = FALSE
    /\ bcOps = << >>
    /\ bcData = << >>
    /\ file = << >>
    /\ pos = 0
    /\ sinkLog = << >>
    /\ pc = "dict"
    /\ ret = NoRet
    /\ okCases = 0
    /\ nCalls = 0
    /\ recs = << >>
    /\ elems = << >>
    /\ fields = << >>

\* m[k] = v in a Go map.
MapPut(m, k, v) == [x \in (DOMAIN m) \cup {k} |-> IF x = k THEN v ELSE m[x]]

(***************************************************************************)
(* AddVar.                                                                 *)
(***************************************************************************)

\* The Var AddVar appends: name cleaned, Segments, Index and ColumnIndex set.
AddVarVar(v, index, columnIndex) ==
    LET v1 == [v EXCEPT !.Name = cleanVarName(v.Name),
                        !.Segments = SegmentsOf(v.TypeSize)]
    IN  [v1 EXCEPT !.Index = index, !.ColumnIndex = columnIndex + 1]

\* The key AddVar looks up and registers in DictMap: origName.
AddVarKey(v) == v.Name

\* The writer's dictionary fields, as AddVar reads and writes them.
DictNow ==
    [ Dict |-> Dict, DictMap |-> DictMap, Index |-> Index,
      ColumnIndex |-> ColumnIndex, fatal |-> FALSE, err |-> FALSE ]

\* log.Fatalf / log.Fatalln: the process exits.
AddVarFatal(dictMap, v) ==
    \/ v.TypeSize > maxStringLength
    \/ AddVarKey(v) \in DOMAIN dictMap

\* AddVar on the dictionary fields st.
AddVarTo(st, v) ==
    IF AddVarFatal(st.DictMap, v) THEN [st EXCEPT !.fatal = TRUE]
    ELSE [st EXCEPT !.Dict = Append(st.Dict, AddVarVar(v, st.Index, st.ColumnIndex)),
                    !.DictMap = MapPut(st.DictMap, AddVarKey(v), Len(st.Dict) + 1),
                    !.Index = st.Index
                              + SegElements(AddVarVar(v, st.Index, st.ColumnIndex), 0),
                    !.ColumnIndex = st.ColumnIndex + 1]

AddVarDone(st) ==
    /\ Dict' = st.Dict
    /\ DictMap' = st.DictMap
    /\ Index' = st.Index
    /\ ColumnIndex' = st.ColumnIndex
    /\ pc' = IF st.fatal THEN "fatal" ELSE pc
    /\ ret' = Ret("AddVar", st.fatal, FALSE)

AddVar(v) ==
    /\ pc = "dict"
    /\ AddVarDone(AddVarTo(DictNow, v))
    /\ UNCHANGED << ShortMap, Count, IgnoreMissingVar, ioVars, histVars, nativeVars, fnVars >>

(***************************************************************************)
(* The sink (an io.WriteSeeker such as *os.File) and the bufio.Writer over *)
(* it.  An io value carries the buffer, the sink and the compressor through*)
(* a call's writes; its err field is what the last write returned.         *)
(***************************************************************************)

IoNow == [ buf |-> buf, werr |-> werr, file |-> file, pos |-> pos,
           bcOps |-> bcOps, bcData |-> bcData, faults |-> faults,
           log |-> << >>, err |-> FALSE ]

\* A call on the sink: Write of n bytes at offset at, Seek to offset at, Close.
SinkCall(call, at, n, ok) == [call |-> call, at |-> at, n |-> n, ok |-> ok]

\* The bytes of f with p written at offset at (a hole reads as zeros).
Overwrite(f, at, p) ==
    LET end == IF at + Len(p) > Len(f) THEN at + Len(p) ELSE Len(f)
    IN  [i \in 1..end |->
            IF i > at /\ i <= at + Len(p) THEN p[i - at]
            ELSE IF i <= Len(f) THEN f[i]
            ELSE 0]

\* Whether the sink's next call succeeds, and the outcomes left after it.
SinkOk(io) == IF io.faults = << >> THEN TRUE ELSE Head(io.faults)

SinkNext(io) == IF io.faults = << >> THEN << >> ELSE Tail(io.faults)

\* seeker.Write(p): all of p at the sink's offset, or an error and nothing.
SinkWrite(io, p) ==
    IF SinkOk(io)
    THEN [io EXCEPT !.file = Overwrite(io.file, io.pos, p),
                    !.pos = io.pos + Len(p), !.err = FALSE, !.faults = SinkNext(io),
                    !.log = Append(io.log, SinkCall("Write", io.pos, Len(p), TRUE))]
    ELSE [io EXCEPT !.err = TRUE, !.faults = SinkNext(io),
                    !.log = Append(io.log, SinkCall("Write", io.pos, Len(p), FALSE))]

\* seeker.Seek(offset, 0)
SinkSeek(io, offset) ==
    IF SinkOk(io)
    THEN [io EXCEPT !.pos = offset, !.err = FALSE, !.faults = SinkNext(io),
                    !.log = Append(io.log, SinkCall("Seek", offset, 0, TRUE))]
    ELSE [io EXCEPT !.err = TRUE, !.faults = SinkNext(io),
                    !.log = Append(io.log, SinkCall("Seek", offset, 0, FALSE))]

\* bufio.Writer.Flush
BufFlush(io) ==
    IF io.werr THEN [io EXCEPT !.err = TRUE]
    ELSE IF Len(io.buf) = 0 THEN [io EXCEPT !.err = FALSE]
    ELSE LET w == SinkWrite(io, io.buf)
         IN  IF w.err THEN [w EXCEPT !.werr = TRUE]
             ELSE [w EXCEPT !.buf = << >>]

\* bufio.Writer.Write
RECURSIVE BufWrite(_, _)
BufWrite(io, p) ==
    LET avail == defaultBufSize - Len(io.buf)
    IN  IF Len(p) > avail /\ ~io.werr
        THEN IF Len(io.buf) = 0
             THEN LET w == SinkWrite(io, p)
                  IN  IF w.err THEN [w EXCEPT !.werr = TRUE]
                      ELSE [w EXCEPT !.err = FALSE]
             ELSE LET filled == [io EXCEPT !.buf = io.buf \o Take(p, avail)]
                  IN  BufWrite(BufFlush(filled), Drop(p, avail))
        ELSE IF io.werr THEN [io EXCEPT !.err = TRUE]
        ELSE [io EXCEPT !.buf = io.buf \o p, !.err = FALSE]

(***************************************************************************)
(* float64 values.  A value is an integer sign * (hi * 2^24 + lo): the     *)
(* numbers the model's inputs parse to, and Unix seconds plus TimeOffset.  *)
(***************************************************************************)

Limb == 4096 * 4096

Num(n) == [neg |-> n < 0,
           hi |-> (IF n < 0 THEN -n ELSE n) \div Limb,
           lo |-> (IF n < 0 THEN -n ELSE n) % Limb]

\* 12219379200 = 728 * 2^24 + 5565952
TimeOffset == [neg |-> FALSE, hi |-> 728, lo |-> 5565952]

\* a + b for a, b >= 0
NumAdd(a, b) ==
    [neg |-> FALSE,
     hi |-> a.hi + b.hi + ((a.lo + b.lo) \div Limb),
     lo |-> (a.lo + b.lo) % Limb]

NumBit(x, i) ==
    IF i < 24 THEN (x.lo \div Pow2(i)) % 2
    ELSE IF i < 48 THEN (x.hi \div Pow2(i - 24)) % 2
    ELSE 0

NumTop(x) == CHOOSE e \in 0..47 : NumBit(x, e) = 1 /\ \A j \in (e + 1)..47 : NumBit(x, j) = 0

\* Bit i (0..63) of the IEEE-754 double of x.
F64Bit(x, i) ==
    IF x.hi = 0 /\ x.lo = 0 THEN 0
    ELSE LET e == NumTop(x)
         IN  IF i = 63 THEN (IF x.neg THEN 1 ELSE 0)
             ELSE IF i >= 52 THEN ((1023 + e) \div Pow2(i - 52)) % 2
             ELSE IF i >= 52 - e THEN NumBit(x, i - (52 - e))
             ELSE 0

\* Bits j..7 of byte k (0..7) of the double of x, weighted.
RECURSIVE F64Byte(_, _, _)
F64Byte(x, k, j) ==
    IF j > 7 THEN 0 ELSE F64Bit(x, 8 * k + j) * Pow2(j) + F64Byte(x, k, j + 1)

\* binary.Write(w, binary.LittleEndian, float64(x))
LEF64(x) == [k \in 1..8 |-> F64Byte(x, k - 1, 0)]

\* math.MaxFloat64 and -math.MaxFloat64, little-endian.
MaxFloat64Bytes == << 255, 255, 255, 255, 255, 255, 239, 127 >>
NegMaxFloat64Bytes == << 255, 255, 255, 255, 255, 255, 239, 255 >>

(***************************************************************************)
(* The bytecode compressor (BytecodeWriter): a block of up to 8 opcodes    *)
(* and their operand bytes, written to the bufio.Writer when it is full.   *)
(***************************************************************************)

\* The block's operand bytes follow its opcodes, unless writing those failed.
BcEmitData(w, data) == IF w.err \/ Len(data) = 0 THEN w ELSE BufWrite(w, data)

\* The block goes out: its 8 opcodes, then its operand bytes; the block resets.
BcEmit(io) ==
    [BcEmitData(BufWrite(io, io.bcOps), io.bcData) EXCEPT !.bcOps = << >>, !.bcData = << >>]

\* One opcode and its operand join the block.
BcPut(io, op, data) ==
    IF Len(io.bcOps) + 1 >= 8
    THEN BcEmit([io EXCEPT !.bcOps = Append(io.bcOps, op), !.bcData = io.bcData \o data,
                           !.err = FALSE])
    ELSE [io EXCEPT !.bcOps = Append(io.bcOps, op), !.bcData = io.bcData \o data,
                    !.err = FALSE]

\* A value v with v + bias an integer in 1..251 is the opcode v + bias.
BcCompressible(f) ==
    /\ f.hi = 0
    /\ (IF f.neg THEN -f.lo ELSE f.lo) + 100 >= 1
    /\ (IF f.neg THEN -f.lo ELSE f.lo) + 100 <= 251

Put(raw, op, data, call) == [raw |-> raw, op |-> op, data |-> data, call |-> call]

\* WriteMissing: opcode 255.
BcWriteMissing(call) == << Put(FALSE, 255, << >>, call) >>

\* WriteNumber: the compressed opcode, or 253 and the 8 bytes of the double.
BcWriteNumber(f, call) ==
    IF BcCompressible(f)
    THEN << Put(FALSE, (IF f.neg THEN -f.lo ELSE f.lo) + 100, << >>, call) >>
    ELSE << Put(FALSE, 253, LEF64(f), call) >>

AllSpaces(c) == \A i \in 1..Len(c) : c[i] = 32

\* The c-th chunk (c = 1, 2, ...) of p: its next 8 bytes, or what is left.
Chunk(p, c) == SubSeq(p, 8 * (c - 1) + 1, Min(8 * c, Len(p)))

\* WriteString: n chunks of 8 bytes, 254 for a blank chunk, else 253 and the
\* chunk padded with spaces.
BcWriteString(p, n, call) ==
    [c \in 1..n |->
        IF AllSpaces(Chunk(p, c)) THEN Put(FALSE, 254, << >>, call)
        ELSE Put(FALSE, 253, stob(Chunk(p, c), 8), call)]

\* Flush: the partial block goes out padded with opcode 0.
BcFlush(io) ==
    IF Len(io.bcOps) = 0 THEN [io EXCEPT !.err = FALSE]
    ELSE BcEmit([io EXCEPT !.bcOps = io.bcOps \o Repeat(0, 8 - Len(io.bcOps))])

(***************************************************************************)
(* Parsing of case values.                                                 *)
(***************************************************************************)

RECURSIVE DigitsValue(_, _)
DigitsValue(s, acc) ==
    IF s = << >> THEN acc ELSE DigitsValue(Tail(s), 10 * acc + (Head(s) - 48))

\* strconv.ParseFloat(s, 64) on the texts the model feeds it: decimal
\* integers (an optional '-', then digits) parse, everything else here
\* (the empty text, words) is a syntax error.
ParseFloat(s) ==
    LET body == IF Len(s) > 0 /\ s[1] = 45 THEN Tail(s) ELSE s
    IN  IF Len(body) > 0 /\ Len(body) <= 6 /\ \A i \in 1..Len(body) : IsDigit(body[i])
        THEN [ok |-> TRUE,
              f |-> Num(IF Len(s) > 0 /\ s[1] = 45 THEN -DigitsValue(body, 0)
                        ELSE DigitsValue(body, 0))]
        ELSE [ok |-> FALSE, f |-> Num(0)]

Date_1Jan1970 == << 49, 45, 74, 97, 110, 45, 49, 57, 55, 48 >>
Date_2Jan1970 == << 50, 45, 74, 97, 110, 45, 49, 57, 55, 48 >>
DateTime_1Jan1970_000001 == Date_1Jan1970 \o << 32, 48, 48, 58, 48, 48, 58, 48, 49 >>

\* time.Parse("2-Jan-2006", s) and t.Unix(), on the texts the model feeds it.
ParseDate(s) ==
    IF s = Date_1Jan1970 THEN [ok |-> TRUE, unix |-> 0]
    ELSE IF s = Date_2Jan1970 THEN [ok |-> TRUE, unix |-> 86400]
    ELSE [ok |-> FALSE, unix |-> 0]

\* time.Parse("2-Jan-2006 15:04:05", s) and t.Unix(), likewise.
ParseDateTime(s) ==
    IF s = DateTime_1Jan1970_000001 THEN [ok |-> TRUE, unix |-> 1]
    ELSE [ok |-> FALSE, unix |-> 0]

(***************************************************************************)
(* WriteCase.  Its calls on the compressor are a function of the           *)
(* dictionary alone; they are made one after another until one fails.      *)
(***************************************************************************)

\* One call: WriteMissing, WriteNumber(num), WriteString(p, n), or the write
\* of bytes p into the bufio.Writer itself ("direct").
Elem(k, var, num, p, n) == [k |-> k, var |-> var, num |-> num, p |-> p, n |-> n]

\* val after k more turns of writeString's loop: 255 bytes shorter each
\* turn, and empty once a turn finds no more than 255 bytes.
ValAfter(val, k) == IF Len(val) > 255 * k THEN Drop(val, 255 * k) ELSE << >>

\* writeString's loop for the segments lo..hi, val being the value left
\* when segment lo is reached: one WriteString of a 255-byte slice each.
RECURSIVE writeStringRange(_, _, _, _, _)
writeStringRange(vi, v, val, lo, hi) ==
    IF lo > hi THEN << >>
    ELSE IF lo = hi
    THEN << Elem("string", vi, Num(0),
                 IF Len(val) > 255 THEN Take(val, 255) ELSE val,
                 elementCount(SegmentWidth(v, lo))) >>
    ELSE writeStringRange(vi, v, val, lo, (lo + hi) \div 2)
         \o writeStringRange(vi, v, ValAfter(val, ((lo + hi) \div 2) + 1 - lo),
                             ((lo + hi) \div 2) + 1, hi)

\* writeString with its loop ending one segment early.
writeStringShort(vi, v, val, s) == writeStringRange(vi, v, val, s, v.Segments - 2)

\* writeString, from segment s on.
writeString(vi, v, val, s) == writeStringRange(vi, v, val, s, v.Segments - 1)

writeMissing(vi) == << Elem("missing", vi, Num(0), << >>, 1) >>

writeNumber(vi, f) == << Elem("number", vi, f, << >>, 1) >>

\* binary.Write(out, endian, -math.MaxFloat64): into the bufio.Writer itself.
writeRawMissing(vi) == << Elem("direct", vi, Num(0), NegMaxFloat64Bytes, 0) >>

\* val as WriteCase picks it when HasValue or HasDefault.
CaseVal(v) == IF v.HasValue THEN v.Value ELSE v.Default

\* The text the date and datetime branches hand to time.Parse.
DateText(v) == v.Value

\* The empty date value.
writeEmptyDate(vi) == writeRawMissing(vi)

\* The date and datetime branches for a value that is not empty.
writeParsed(vi, t) ==
    IF ~t.ok THEN writeMissing(vi) ELSE writeNumber(vi, NumAdd(Num(t.unix), TimeOffset))

\* The number branch for a value that is not empty.
writeFloat(vi, f) == IF ~f.ok THEN writeMissing(vi) ELSE writeNumber(vi, f.f)

\* The body of WriteCase's loop for the variable at position vi.
writeVar(vi, v) ==
    IF v.HasValue \/ v.HasDefault
    THEN IF v.TypeSize > 0 THEN writeString(vi, v, trim(CaseVal(v), v.TypeSize), 0)
         ELSE IF v.PrintFmt = SPSS_FMT_DATE
         THEN IF CaseVal(v) = << >> THEN writeEmptyDate(vi)
              ELSE writeParsed(vi, ParseDate(DateText(v)))
         ELSE IF v.PrintFmt = SPSS_FMT_DATE_TIME
         THEN IF CaseVal(v) = << >> THEN writeMissing(vi)
              ELSE writeParsed(vi, ParseDateTime(DateText(v)))
         ELSE IF CaseVal(v) = << >> THEN writeMissing(vi)
              ELSE writeFloat(vi, ParseFloat(CaseVal(v)))
    ELSE IF v.TypeSize > 0 THEN writeString(vi, v, << >>, 0)
         ELSE writeMissing(vi)

\* WriteCase's loop over out.Dict from position vi: the calls it makes when
\* none fails.
RECURSIVE writeVars(_, _)
writeVars(dict, vi) ==
    IF vi > Len(dict) THEN << >> ELSE writeVar(vi, dict[vi]) \o writeVars(dict, vi + 1)

\* What the call e (the call-th of the case) puts into the compressor's block.
ElemPuts(e, call) ==
    IF e.k = "missing" THEN BcWriteMissing(call)
    ELSE IF e.k = "number" THEN BcWriteNumber(e.num, call)
    ELSE IF e.k = "string" THEN BcWriteString(e.p, e.n, call)
    ELSE << Put(TRUE, 0, e.p, call) >>

RECURSIVE CasePuts(_, _)
CasePuts(calls, i) ==
    IF i > Len(calls) THEN << >> ELSE ElemPuts(calls[i], i) \o CasePuts(calls, i + 1)

\* One put: into the block, or (a direct write) into the bufio.Writer.
ApplyPut(io, put) ==
    IF put.raw THEN BufWrite(io, put.data) ELSE BcPut(io, put.op, put.data)

PutResult(w, i) == [io |-> w, n |-> IF w.err THEN i - 1 ELSE i, stop |-> w.err]

\* Whether to go on after the puts lo..mid.
RECURSIVE PutRange(_, _, _, _)
PutRest(left, puts, mid, hi) ==
    IF left.stop THEN left ELSE PutRange(left.io, puts, mid + 1, hi)

\* The puts lo..hi one after another until one returns an error.
PutRange(io, puts, lo, hi) ==
    IF lo > hi THEN [io |-> io, n |-> lo - 1, stop |-> FALSE]
    ELSE IF lo = hi THEN PutResult(ApplyPut(io, puts[lo]), lo)
    ELSE PutRest(PutRange(io, puts, lo, (lo + hi) \div 2), puts, (lo + hi) \div 2, hi)

\* The calls WriteCase made, given how its puts went: all of them, or those
\* up to the one that returned the error.
CallsMade(calls, puts, r) ==
    IF r.stop THEN Take(calls, puts[r.n + 1].call) ELSE calls

CountAfterCaseAlways(count, err) == count + 1

\* out.Count after a WriteCase that returned err.
CountAfterCase(count, err) == IF err THEN count ELSE count + 1

(***************************************************************************)
(* Start: the records.  Each record function is the sequence of its writes *)
(* (one item per binary.Write or out.Write call), in the order of the code.*)
(***************************************************************************)

Item(tag, bytes) == [tag |-> tag, bytes |-> bytes]

I32(tag, x) == Item(tag, LE32(x))

Txt_FL2 == << 36, 70, 76, 50 >>
\* "@(#) SPSS DATA FILE - xml2sav 2.0"
Txt_ProdName ==
    << 64, 40, 35, 41, 32, 83, 80, 83, 83, 32, 68, 65, 84, 65, 32, 70, 73, 76, 69,
       32, 45, 32, 120, 109, 108, 50, 115, 97, 118, 32, 50, 46, 48 >>
\* time.Now() formatted "02 Jan 06" and "15:04:05": one instant of the clock.
Txt_Date == << 48, 49, 32, 74, 97, 110, 32, 55, 48 >>
Txt_Time == << 48, 48, 58, 48, 48, 58, 48, 48 >>
Txt_UTF8 == << 85, 84, 70, 45, 56 >>

headerRecord(dict, fileLabel) ==
    << Item("header.rec_type", stob(Txt_FL2, 4)),
       Item("header.prod_name", stob(Txt_ProdName, 60)),
       I32("header.layout_code", 2),
       I32("header.nominal_case_size", caseSize(dict)),
       I32("header.compression", 1),
       I32("header.weight_index", 0),
       I32("header.ncases", -1),
       Item("header.bias", LEF64(Num(100))),
       Item("header.creation_date", stob(Txt_Date, 9)),
       Item("header.creation_time", stob(Txt_Time, 8)),
       Item("header.file_label", stob(fileLabel, 64)),
       Item("header.padding", stob(<< 0, 0, 0 >>, 3)) >>

\* The k-th value of rand.Int() % 10000000 in a run seeded with seed.
RandName(seed, k) == (seed + k) % 10000000

\* makeShortName's loop: the accepted name and the random draws used.
RECURSIVE makeShortNameLoop(_, _, _, _, _, _)
makeShortNameLoop(shortMap, baseName, short, segment, seed, k) ==
    IF short \notin DOMAIN shortMap THEN [short |-> short, k |-> k]
    ELSE LET appendText == ToUpper(ConvertIntToColumnName(segment))
         IN  IF Len(appendText) > 3
             THEN makeShortNameLoop(shortMap, baseName, << 64 >> \o Itoa(RandName(seed, k)),
                                    segment + 1, seed, k + 1)
             ELSE makeShortNameLoop(shortMap, baseName, baseName \o appendText,
                                    segment + 1, seed, k)

makeShortNameNoLoop(shortMap, v, segment, seed, k) ==
    [short |-> ToUpper(trim(v.Name, 5)) \o << 48 >>, k |-> k]

makeShortName(shortMap, v, segment, seed, k) ==
    LET baseName == ToUpper(trim(v.Name, 5))
    IN  makeShortNameLoop(shortMap, baseName, baseName \o << 48 >>, segment, seed, k)

\* The print / write format word of a segment.
VarFormat(v, width) ==
    IF v.TypeSize > 0 THEN v.PrintFmt * 65536 + width * 256
    ELSE v.PrintFmt * 65536 + v.Width * 256 + v.Decimals

LabelPad(len) ==
    LET pad == Rem(4 - len, 4) IN IF pad < 0 THEN pad + 4 ELSE pad

ZeroItems(tag, n) == [i \in 1..n |-> Item(tag, << 0 >>)]

ContinuationRecord ==
    << I32("cont.rec_type", 2), I32("cont.type", -1), I32("cont.has_var_label", 0),
       I32("cont.n_missing_values", 0), I32("cont.print", 0), I32("cont.write", 0),
       Item("cont.name", stob(Repeat(32, 8), 8)) >>

\* One continuation record more than count.
ContinuationRecordsOneMore(count) ==
    [i \in 1..(7 * (count + 1)) |-> ContinuationRecord[((i - 1) % 7) + 1]]

\* count continuation records, one after another.
ContinuationRecords(count) ==
    [i \in 1..(7 * count) |-> ContinuationRecord[((i - 1) % 7) + 1]]

\* The writes of one segment's variable record, before its name field.
VarRecordHead(v, segment) ==
    LET width == SegmentWidth(v, segment)
    IN  << I32("var.rec_type", 2),
           I32("var.type", width),
           I32("var.has_var_label", IF segment = 0 /\ Len(v.Label) > 0 THEN 1 ELSE 0),
           I32("var.n_missing_values", 0),
           I32("var.print", VarFormat(v, width)),
           I32("var.write", VarFormat(v, width)) >>

\* The writes of one segment's variable record from its name field on.
VarRecordTail(v, segment, short) ==
    LET width == SegmentWidth(v, segment)
    IN  << Item("var.name", stob(short, 8)) >>
        \o (IF segment = 0 /\ Len(v.Label) > 0
            THEN << I32("var.label_len", Len(v.Label)), Item("var.label", v.Label) >>
                 \o ZeroItems("var.label_pad", LabelPad(Len(v.Label)))
            ELSE << >>)
        \o (IF width > 8 THEN ContinuationRecords(elementCount(width) - 1) ELSE << >>)

\* variableRecords from variable vi, segment seg.  acc carries the writes so
\* far, the short-name map, the dictionary (ShortName set at segment 0), the
\* random draws used, and for every makeShortName call the write it precedes.
RECURSIVE variableRecordsFrom(_, _, _, _)
variableRecordsFrom(acc, vi, seg, seed) ==
    IF vi > Len(acc.dict) THEN acc
    ELSE IF seg >= acc.dict[vi].Segments THEN variableRecordsFrom(acc, vi + 1, 0, seed)
    ELSE LET v    == acc.dict[vi]
             head == VarRecordHead(v, seg)
             nm   == makeShortName(acc.sm, v, seg, seed, acc.k)
             at   == Len(acc.items) + Len(head) + 1
             acc1 == [ items  |-> acc.items \o head \o VarRecordTail(v, seg, nm.short),
                       sm     |-> MapPut(acc.sm, nm.short, vi),
                       dict   |-> IF seg = 0
                                  THEN [acc.dict EXCEPT ![vi].ShortName = nm.short]
                                  ELSE acc.dict,
                       k      |-> nm.k,
                       allocs |-> Append(acc.allocs,
                                     [at |-> at, short |-> nm.short, vi |-> vi, seg |-> seg]) ]
         IN  variableRecordsFrom(acc1, vi, seg + 1, seed)

variableRecords(items, dict, shortMap, seed) ==
    variableRecordsFrom([items |-> items, sm |-> shortMap, dict |-> dict, k |-> 0,
                         allocs |-> << >>], 1, 0, seed)

\* atof: strconv.ParseFloat(s, 32), or log.Fatalln.
atof(s) == ParseFloat(s)

SpaceItems(tag, n) == [i \in 1..n |-> Item(tag, << 32 >>)]

\* The writes for one value label of v; a "fatal" item where atof exits.
ValueLabelItems(v, label) ==
    LET l   == Min(Len(label.Desc), 120)
        p0  == Rem(8 - l - 1, 8)
        pad == IF p0 < 0 THEN p0 + 8 ELSE p0
    IN  (IF v.TypeSize = 0
         THEN (IF atof(label.Value).ok
               THEN << Item("label.value", LEF64(atof(label.Value).f)) >>
               ELSE << Item("fatal", << >>) >>)
         ELSE << Item("label.value", stob(label.Value, 8)) >>)
        \o << Item("label.label_len", << l >>), Item("label.label", stob(label.Desc, l)) >>
        \o SpaceItems("label.pad", pad)

RECURSIVE ValueLabelsFrom(_, _)
ValueLabelsFrom(v, i) ==
    IF i > Len(v.Labels) THEN << >>
    ELSE ValueLabelItems(v, v.Labels[i]) \o ValueLabelsFrom(v, i + 1)

RECURSIVE valueLabelRecordsFrom(_, _)
valueLabelRecordsFrom(dict, vi) ==
    IF vi > Len(dict) THEN << >>
    ELSE LET v == dict[vi]
         IN  (IF Len(v.Labels) > 0 /\ v.TypeSize <= 8
              THEN << I32("labels.rec_type", 3), I32("labels.label_count", Len(v.Labels)) >>
                   \o ValueLabelsFrom(v, 1)
                   \o << I32("labelvars.rec_type", 4), I32("labelvars.var_count", 1),
                         I32("labelvars.vars", v.Index) >>
              ELSE << >>)
             \o valueLabelRecordsFrom(dict, vi + 1)

valueLabelRecords(dict) == valueLabelRecordsFrom(dict, 1)

machineIntegerInfoRecord ==
    << I32("intinfo.rec_type", 7), I32("intinfo.subtype", 3), I32("intinfo.size", 4),
       I32("intinfo.count", 8), I32("intinfo.version_major", 0),
       I32("intinfo.version_minor", 10), I32("intinfo.version_revision", 1),
       I32("intinfo.machine_code", -1), I32("intinfo.floating_point_rep", 1),
       I32("intinfo.compression_code", 1), I32("intinfo.endianness", 2),
       I32("intinfo.character_code", 65001) >>

machineFloatingPointInfoRecord ==
    << I32("floatinfo.rec_type", 7), I32("floatinfo.subtype", 4), I32("floatinfo.size", 8),
       I32("floatinfo.count", 3), Item("floatinfo.sysmis", NegMaxFloat64Bytes),
       Item("floatinfo.highest", MaxFloat64Bytes), Item("floatinfo.lowest", NegMaxFloat64Bytes) >>

\* The three words of one segment in the display-parameter record.
DisplayItems(v, s) ==
    << I32("display.measure", v.Measure) >>
    \o (IF v.TypeSize > 0
        THEN << I32("display.width",
                    IF s # 0 THEN 8
                    ELSE IF v.TypeSize <= maxPrintStringWidth THEN v.TypeSize
                    ELSE maxPrintStringWidth),
                I32("display.alignment", 0) >>
        ELSE << I32("display.width", 8), I32("display.alignment", 1) >>)

RECURSIVE DisplayFrom(_, _, _)
DisplayFrom(dict, vi, s) ==
    IF vi > Len(dict) THEN << >>
    ELSE IF s >= dict[vi].Segments THEN DisplayFrom(dict, vi + 1, 0)
    ELSE DisplayItems(dict[vi], s) \o DisplayFrom(dict, vi, s + 1)

variableDisplayParameterRecord(dict) ==
    << I32("display.rec_type", 7), I32("display.subtype", 11), I32("display.size", 4),
       I32("display.count", VarCount(dict) * 3) >>
    \o DisplayFrom(dict, 1, 0)

\* The payload of the long-variable-name record: SHORT=long, tab-joined.
RECURSIVE LongNamesFrom(_, _)
LongNamesFrom(dict, i) ==
    IF i > Len(dict) THEN << >>
    ELSE dict[i].ShortName \o << 61 >> \o dict[i].Name
         \o (IF i < Len(dict) THEN << 9 >> ELSE << >>)
         \o LongNamesFrom(dict, i + 1)

longVarNameRecords(dict) ==
    << I32("longnames.rec_type", 7), I32("longnames.subtype", 13), I32("longnames.size", 1),
       I32("longnames.count", Len(LongNamesFrom(dict, 1))),
       Item("longnames.payload", LongNamesFrom(dict, 1)) >>

\* The five bytes veryLongStringRecord writes for a type size.
VeryLongWidth(typeSize) == stobp(Itoa(typeSize), 5, 0)

\* The payload of the very-long-string record.
RECURSIVE VeryLongFrom(_, _)
VeryLongFrom(dict, i) ==
    IF i > Len(dict) THEN << >>
    ELSE (IF dict[i].Segments > 1
          THEN dict[i].ShortName \o << 61 >> \o VeryLongWidth(dict[i].TypeSize) \o << 0, 9 >>
          ELSE << >>)
         \o VeryLongFrom(dict, i + 1)

veryLongStringRecord(dict) ==
    IF ~(\E i \in 1..Len(dict) : dict[i].Segments > 1) THEN << >>
    ELSE << I32("verylong.rec_type", 7), I32("verylong.subtype", 14),
            I32("verylong.size", 1), I32("verylong.count", Len(VeryLongFrom(dict, 1))),
            Item("verylong.payload", VeryLongFrom(dict, 1)) >>

encodingRecord ==
    << I32("encoding.rec_type", 7), I32("encoding.subtype", 20), I32("encoding.size", 1),
       I32("encoding.filler", 5), Item("encoding.encoding", stob(Txt_UTF8, 5)) >>

RECURSIVE LongLabelsOf(_, _)
LongLabelsOf(v, i) ==
    IF i > Len(v.Labels) THEN << >>
    ELSE LE32(Len(v.Labels[i].Value)) \o v.Labels[i].Value
         \o LE32(Len(v.Labels[i].Desc)) \o v.Labels[i].Desc
         \o LongLabelsOf(v, i + 1)

RECURSIVE LongLabelsFrom(_, _)
LongLabelsFrom(dict, vi) ==
    IF vi > Len(dict) THEN << >>
    ELSE (IF Len(dict[vi].Labels) > 0 /\ dict[vi].TypeSize > 8
          THEN LE32(Len(dict[vi].ShortName)) \o dict[vi].ShortName
               \o LE32(dict[vi].TypeSize) \o LE32(Len(dict[vi].Labels))
               \o LongLabelsOf(dict[vi], 1)
          ELSE << >>)
         \o LongLabelsFrom(dict, vi + 1)

longStringValueLabelsRecord(dict) ==
    IF ~(\E i \in 1..Len(dict) : Len(dict[i].Labels) > 0 /\ dict[i].TypeSize > 8) THEN << >>
    ELSE << I32("longlabels.rec_type", 7), I32("longlabels.subtype", 21),
            I32("longlabels.size", 1), I32("longlabels.count", Len(LongLabelsFrom(dict, 1))),
            Item("longlabels.payload", LongLabelsFrom(dict, 1)) >>

terminationRecord == << I32("term.rec_type", 999), I32("term.filler", 0) >>

\* Everything Start writes when nothing fails, with the short names it makes.
StartPlan(dict, shortMap, fileLabel, seed) ==
    LET vr == variableRecords(headerRecord(dict, fileLabel), dict, shortMap, seed)
    IN  [vr EXCEPT !.items =
            vr.items
            \o valueLabelRecords(vr.dict)
            \o machineIntegerInfoRecord
            \o machineFloatingPointInfoRecord
            \o variableDisplayParameterRecord(vr.dict)
            \o longVarNameRecords(vr.dict)
            \o veryLongStringRecord(vr.dict)
            \o encodingRecord
            \o longStringValueLabelsRecord(vr.dict)
            \o terminationRecord]

\* What one write of the plan returned: the io value after it, how many
\* writes of the plan have succeeded, whether the process exited, and whether
\* Start stops here.
WriteResult(w, i) ==
    [io |-> w, n |-> IF w.err THEN i - 1 ELSE i, fatal |-> FALSE, stop |-> w.err]

WriteItem(io, items, i) ==
    IF items[i].tag = "fatal" THEN [io |-> io, n |-> i - 1, fatal |-> TRUE, stop |-> TRUE]
    ELSE WriteResult(BufWrite(io, items[i].bytes), i)

\* Whether to go on after the writes lo..mid.
RECURSIVE WriteRange(_, _, _, _)
WriteRest(left, items, mid, hi) ==
    IF left.stop THEN left ELSE WriteRange(left.io, items, mid + 1, hi)

\* The writes lo..hi one after another until one fails or atof exits.
WriteRange(io, items, lo, hi) ==
    IF lo > hi THEN [io |-> io, n |-> lo - 1, fatal |-> FALSE, stop |-> FALSE]
    ELSE IF lo = hi THEN WriteItem(io, items, lo)
    ELSE WriteRest(WriteRange(io, items, lo, (lo + hi) \div 2), items, (lo + hi) \div 2, hi)

WriteItems(io, items, i) == WriteRange(io, items, i, Len(items))

\* The short names registered once the first n writes of the plan succeeded.
RECURSIVE AllocsDone(_, _, _, _)
AllocsDone(allocs, i, n, acc) ==
    IF i > Len(allocs) \/ allocs[i].at > n + 1 THEN acc
    ELSE AllocsDone(allocs, i + 1, n,
            [ sm   |-> MapPut(acc.sm, allocs[i].short, allocs[i].vi),
              dict |-> IF allocs[i].seg = 0
                       THEN [acc.dict EXCEPT ![allocs[i].vi].ShortName = allocs[i].short]
                       ELSE acc.dict ])

(***************************************************************************)
(* The operations of SpssWriter.                                           *)
(***************************************************************************)

SetIo(io) ==
    /\ buf' = io.buf
    /\ werr' = io.werr
    /\ bcOps' = io.bcOps
    /\ bcData' = io.bcData
    /\ file' = io.file
    /\ pos' = io.pos
    /\ faults' = io.faults
    /\ sinkLog' = IF io.log = << >> THEN sinkLog ELSE io.log

IsField(it) ==
    it.tag \in { "header.nominal_case_size", "header.ncases", "var.rec_type", "var.type",
                 "var.name", "cont.rec_type", "cont.type", "longnames.payload",
                 "verylong.payload", "term.rec_type", "term.filler" }

\* The body of Start on the dictionary dict.
StartOn(op, dict, fileLabel, seed) ==
    LET plan == StartPlan(dict, ShortMap, fileLabel, seed)
        r    == WriteItems(IoNow, plan.items, 1)
        done == AllocsDone(plan.allocs, 1, r.n, [sm |-> ShortMap, dict |-> dict])
    IN  /\ SetIo(r.io)
        /\ Dict' = done.dict
        /\ ShortMap' = done.sm
        /\ recs' = [i \in 1..r.n |-> plan.items[i].tag]
        /\ fields' = SelectSeq(SubSeq(plan.items, 1, r.n), IsField)
        /\ pc' = IF r.fatal THEN "fatal" ELSE "cases"
        /\ ret' = Ret(op, r.fatal \/ r.io.err, FALSE)

Start(fileLabel, seed) ==
    /\ pc = "dict"
    /\ StartOn("Start", Dict, fileLabel, seed)
    /\ UNCHANGED << DictMap, Count, Index, ColumnIndex, IgnoreMissingVar,
                    okCases, nCalls, elems, nativeVars, fnVars >>

\* A ClearCase that clears nothing.
ClearCaseKeep(dict) == dict

ClearCaseDict(dict) ==
    [i \in 1..Len(dict) |-> [dict[i] EXCEPT !.Value = << >>, !.HasValue = FALSE]]

ClearCase ==
    /\ pc = "cases"
    /\ Dict' = ClearCaseDict(Dict)
    /\ ret' = Ret("ClearCase", FALSE, FALSE)
    /\ UNCHANGED << DictMap, ShortMap, Count, Index, ColumnIndex, IgnoreMissingVar,
                    ioVars, pc, histVars, nativeVars, fnVars >>

\* SetVar on the dictionary dict: log.Fatalln when the name is unknown and
\* IgnoreMissingVar is off.
SetVarTo(st, name, value) ==
    IF st.fatal THEN st
    ELSE IF name \notin DOMAIN DictMap
    THEN [st EXCEPT !.fatal = ~IgnoreMissingVar]
    ELSE [st EXCEPT !.dict = [st.dict EXCEPT ![DictMap[name]].Value = value,
                                             ![DictMap[name]].HasValue = TRUE]]

\* What SetVar returned, with the arguments it was called with.
RetSetVar(name, value, fatal) ==
    [op |-> "SetVar", err |-> fatal, flushErr |-> FALSE, name |-> name, value |-> value]

SetVarDone(name, value, st) ==
    /\ Dict' = st.dict
    /\ pc' = IF st.fatal THEN "fatal" ELSE pc
    /\ ret' = RetSetVar(name, value, st.fatal)

SetVar(name, value) ==
    /\ pc = "cases"
    /\ SetVarDone(name, value, SetVarTo([dict |-> Dict, fatal |-> FALSE], name, value))
    /\ UNCHANGED << DictMap, ShortMap, Count, Index, ColumnIndex, IgnoreMissingVar,
                    ioVars, histVars, nativeVars, fnVars >>

\* WriteCase, given how its puts went.
WriteCaseDone(call, calls, puts, r) ==
    /\ SetIo(r.io)
    /\ Count' = CountAfterCase(Count, r.stop)
    /\ okCases' = IF r.stop THEN okCases ELSE okCases + 1
    /\ elems' = CallsMade(calls, puts, r)
    /\ nCalls' = nCalls + 1
    /\ ret' = [call EXCEPT !.err = r.stop]

WriteCaseRun(call, calls, puts) ==
    WriteCaseDone(call, calls, puts, PutRange(IoNow, puts, 1, Len(puts)))

\* The body of WriteCase on the dictionary dict.
WriteCaseOn(call, dict) ==
    WriteCaseRun(call, writeVars(dict, 1), CasePuts(writeVars(dict, 1), 1))

WriteCase ==
    /\ pc = "cases"
    /\ WriteCaseOn(Ret("WriteCase", FALSE, FALSE), Dict)
    /\ UNCHANGED << Dict, DictMap, ShortMap, Index, ColumnIndex, IgnoreMissingVar, pc,
                    recs, fields, nativeVars, fnVars >>

\* updateHeaderNCases: what it returns, given its four steps.
FinishErr(flushed, seeked, patched) == seeked.err \/ patched.err

\* updateHeaderNCases with the count written before the two flushes.
FinishIoPatchFirst(io) ==
    LET seeked  == SinkSeek(io, 80)
        patched == IF seeked.err THEN seeked ELSE SinkWrite(seeked, LE32(Count))
        bc      == BcFlush(patched)
        flushed == BufFlush(bc)
    IN  [ io |-> flushed, err |-> FinishErr(flushed, seeked, patched),
          flushErr |-> bc.err \/ flushed.err ]

\* updateHeaderNCases: the compressor's Flush, the bufio.Writer's Flush, Seek
\* and the write of the count into the sink.
FinishIo(io) ==
    LET bc      == BcFlush(io)
        flushed == BufFlush(bc)
        seeked  == SinkSeek(flushed, 80)
        patched == IF seeked.err THEN seeked ELSE SinkWrite(seeked, LE32(Count))
    IN  [ io |-> patched, err |-> FinishErr(flushed, seeked, patched),
          flushErr |-> bc.err \/ flushed.err ]

FinishDone(op, r) ==
    /\ SetIo(r.io)
    /\ ret' = Ret(op, r.err, r.flushErr)
    /\ pc' = "done"

\* Finish, that is updateHeaderNCases.
Finish ==
    /\ pc = "cases"
    /\ FinishDone("Finish", FinishIo(IoNow))
    /\ UNCHANGED << writerVars, histVars, nativeVars, fnVars >>

(***************************************************************************)
(* NativeSav.                                                              *)
(***************************************************************************)

Txt_scale == << 115, 99, 97, 108, 101 >>                     \* "scale"
Txt_nominal == << 110, 111, 109, 105, 110, 97, 108 >>        \* "nominal"
Txt_ordinal == << 111, 114, 100, 105, 110, 97, 108 >>        \* "ordinal"
Txt_StartWriteValue ==                                       \* "start write value: t"
    << 115, 116, 97, 114, 116, 32, 119, 114, 105, 116, 101, 32,
       118, 97, 108, 117, 101, 58, 32, 116 >>

\* A Dict declaration; a nil pointer is Has... = FALSE.
NewDict(name, type, hasWidth, width, hasMeasure, measure, hasDefault, default) ==
    [ Name |-> name, Type |-> type, HasWidth |-> hasWidth, Width |-> width,
      HasDecimals |-> FALSE, Decimals |-> 0, HasMeasure |-> hasMeasure,
      Measure |-> measure, Label |-> << >>, HasDefault |-> hasDefault,
      Default |-> default, Labels |-> << >> ]

NewVal(name, value) == [Name |-> name, Value |-> value]

\* findLengths: the loop over one case's values.
RECURSIVE findLengthsCase(_, _, _)
findLengthsCase(lengths, vals, j) ==
    IF j > Len(vals) THEN lengths
    ELSE IF vals[j].Name \notin DOMAIN lengths
    THEN findLengthsCase(MapPut(lengths, vals[j].Name, Len(vals[j].Value)), vals, j + 1)
    ELSE IF lengths[vals[j].Name] < Len(vals[j].Value)
    THEN findLengthsCase(MapPut(lengths, vals[j].Name, Len(vals[j].Value)), vals, j + 1)
    ELSE findLengthsCase(lengths, vals, j + 1)

RECURSIVE findLengths(_, _, _)
findLengths(lengths, cases, i) ==
    IF i > Len(cases) THEN lengths
    ELSE findLengths(findLengthsCase(lengths, cases[i], 1), cases, i + 1)

getVarLength(lengths, name) ==
    IF name \notin DOMAIN lengths THEN [le |-> 0, err |-> TRUE]
    ELSE [le |-> lengths[name], err |-> FALSE]

\* The width of a string declaration: declared, or the longest value seen.
StringWidth(lengths, d) ==
    IF d.HasWidth THEN [le |-> d.Width, err |-> FALSE] ELSE getVarLength(lengths, d.Name)

\* The measure WriteDict sets: the kind's, unless the declaration names one.
MeasureOf(d, measure) ==
    IF ~d.HasMeasure THEN [m |-> measure, err |-> FALSE]
    ELSE IF d.Measure = Txt_scale THEN [m |-> SPSS_MLVL_RAT, err |-> FALSE]
    ELSE IF d.Measure = Txt_nominal THEN [m |-> SPSS_MLVL_NOM, err |-> FALSE]
    ELSE IF d.Measure = Txt_ordinal THEN [m |-> SPSS_MLVL_ORD, err |-> FALSE]
    ELSE [m |-> measure, err |-> TRUE]

\* The Var WriteDict builds for the declaration d, by d.Type.
WriteDictKind(d, w) ==
    IF d.Type = DictTypeNumeric
    THEN NewVar(d.Name, d.Type, SPSS_NUMERIC, SPSS_FMT_F,
                IF d.HasWidth THEN d.Width % 256 ELSE 8,
                IF d.HasDecimals THEN d.Decimals % 256 ELSE 2,
                SPSS_MLVL_NOM, d.Label, d.HasDefault, d.Default)
    ELSE IF d.Type = DictTypeDate
    THEN NewVar(d.Name, d.Type, SPSS_NUMERIC, SPSS_FMT_DATE, 11, 0,
                SPSS_MLVL_RAT, d.Label, d.HasDefault, d.Default)
    ELSE IF d.Type = DictTypeDatetime
    THEN NewVar(d.Name, d.Type, SPSS_NUMERIC, SPSS_FMT_DATE_TIME, 20, 0,
                SPSS_MLVL_RAT, d.Label, d.HasDefault, d.Default)
    ELSE NewVar(d.Name, d.Type, w.le, SPSS_FMT_A,
                IF w.le > 40 THEN 40 ELSE w.le % 256, 0,
                SPSS_MLVL_NOM, d.Label, d.HasDefault, d.Default)

\* One round of WriteDict's loop up to AddVar: the Var, or the error returned.
WriteDictVar(lengths, d) ==
    IF d.Type = DictTypeString /\ StringWidth(lengths, d).err
    THEN [v |-> WriteDictKind(d, [le |-> 0]), err |-> TRUE]
    ELSE [v |-> [WriteDictKind(d, StringWidth(lengths, d)) EXCEPT
                    !.Measure = MeasureOf(d, @).m],
          err |-> MeasureOf(d, SPSS_MLVL_NOM).err]

\* WriteDict's loop from declaration i on the dictionary fields st.
RECURSIVE WriteDictVars(_, _, _, _)
WriteDictVars(decls, lengths, i, st) ==
    IF i > Len(decls) \/ st.fatal THEN st
    ELSE IF WriteDictVar(lengths, decls[i]).err THEN [st EXCEPT !.err = TRUE]
    ELSE WriteDictVars(decls, lengths, i + 1,
                       AddVarTo(st, WriteDictVar(lengths, decls[i]).v))

WriteDictDone(st) ==
    /\ DictMap' = st.DictMap
    /\ Index' = st.Index
    /\ ColumnIndex' = st.ColumnIndex
    /\ IF st.fatal \/ st.err
       THEN /\ Dict' = st.Dict
            /\ pc' = IF st.fatal THEN "fatal" ELSE pc
            /\ ret' = Ret("WriteDict", TRUE, FALSE)
            /\ UNCHANGED << ShortMap, ioVars, recs, fields >>
       ELSE StartOn("WriteDict", st.Dict, Txt_StartWriteValue, 0)

WriteDict ==
    /\ pc = "dict"
    /\ WriteDictDone(WriteDictVars(nvDict, nvLengths, 1, DictNow))
    /\ UNCHANGED << Count, IgnoreMissingVar, okCases, nCalls, elems, nativeVars, fnVars >>

\* WriteVal's loop of SetVar calls from item j.
RECURSIVE SetVars(_, _, _)
SetVars(st, vals, j) ==
    IF j > Len(vals) THEN st
    ELSE SetVars(SetVarTo(st, vals[j].Name, vals[j].Value), vals, j + 1)

\* WriteVal(vals) and what it returned.
RetWriteVal(vals, err) ==
    [op |-> "WriteVal", err |-> err, flushErr |-> FALSE, vals |-> vals]

WriteValDone(vals, st) ==
    /\ Dict' = st.dict
    /\ IF st.fatal
       THEN /\ pc' = "fatal"
            /\ ret' = RetWriteVal(vals, TRUE)
            /\ UNCHANGED << Count, ioVars, okCases, nCalls, elems >>
       ELSE /\ WriteCaseOn(RetWriteVal(vals, FALSE), st.dict)
            /\ UNCHANGED pc

WriteVal(vals) ==
    /\ pc = "cases"
    /\ WriteValDone(vals, SetVars([dict |-> ClearCaseDict(Dict), fatal |-> FALSE], vals, 1))
    /\ UNCHANGED << DictMap, ShortMap, Index, ColumnIndex, IgnoreMissingVar,
                    recs, fields, nativeVars, fnVars >>

\* GenerateNativeSav's out.findLengths(cases).
FindLengths(cases) ==
    /\ pc = "dict"
    /\ nvLengths' = findLengths(nvLengths, cases, 1)
    /\ ret' = Ret("findLengths", FALSE, FALSE)
    /\ UNCHANGED << writerVars, ioVars, histVars, pc, nvDict, fnVars >>

\* file.Close() on the sink.
SinkClose(io) ==
    [io EXCEPT !.err = ~SinkOk(io), !.faults = SinkNext(io),
               !.log = Append(io.log, SinkCall("Close", 0, 0, SinkOk(io)))]

CloseIo(r) ==
    IF r.err THEN r
    ELSE [ io |-> SinkClose(r.io), err |-> SinkClose(r.io).err, flushErr |-> r.flushErr ]

\* Close: Finish, then the file is closed.
Close ==
    /\ pc = "cases"
    /\ FinishDone("Close", CloseIo(FinishIo(IoNow)))
    /\ UNCHANGED << writerVars, histVars, nativeVars, fnVars >>

(***************************************************************************)
(* The inputs of the model.                                                *)
(***************************************************************************)

Name_age == << 97, 103, 101 >>                     \* "age"
Name_dob == << 100, 111, 98 >>                     \* "dob"
Name_ts == << 116, 115 >>                          \* "ts"
Name_code == << 99, 111, 100, 101 >>               \* "code"
Name_essay == << 101, 115, 115, 97, 121 >>         \* "essay"
Name_essay2 == << 101, 115, 115, 97, 121, 50 >>    \* "essay2"
Name_ab == << 97, 98 >>                            \* "ab"
Name_a_b == << 97, 32, 98 >>                       \* "a b"
Name_1abc == << 49, 97, 98, 99 >>                  \* "1abc"
Name_q0001_other_1 ==                              \* "q0001_other_1"
    << 113, 48, 48, 48, 49, 95, 111, 116, 104, 101, 114, 95, 49 >>
Name_q0001_other_2 ==                              \* "q0001_other_2"
    << 113, 48, 48, 48, 49, 95, 111, 116, 104, 101, 114, 95, 50 >>
Name_none == << 122, 122 >>                        \* "zz": never added
Text_42 == << 52, 50 >>                            \* "42"
Text_word == << 119, 111, 114, 100, 33 >>          \* "word!"
Text_label == << 65, 103, 101 >>                   \* "Age"

\* The Vars NativeSav.WriteDict builds for each kind.
NumericVar(name) ==
    NewVar(name, DictTypeNumeric, SPSS_NUMERIC, SPSS_FMT_F, 8, 2, SPSS_MLVL_NOM,
           << >>, FALSE, << >>)

DateVar(name, hasDefault, default) ==
    NewVar(name, DictTypeDate, SPSS_NUMERIC, SPSS_FMT_DATE, 11, 0, SPSS_MLVL_RAT,
           << >>, hasDefault, default)

DatetimeVar(name) ==
    NewVar(name, DictTypeDatetime, SPSS_NUMERIC, SPSS_FMT_DATE_TIME, 20, 0, SPSS_MLVL_RAT,
           << >>, FALSE, << >>)

StringVar(name, width) ==
    NewVar(name, DictTypeString, width, SPSS_FMT_A, Min(width, 40), 0, SPSS_MLVL_NOM,
           << >>, FALSE, << >>)

\* The values a caller may set for a variable of v's kind.
ValuesFor(v) ==
    IF v.TypeSize > 0 THEN { << >>, Text_word }
    ELSE IF v.PrintFmt = SPSS_FMT_DATE THEN { << >>, Date_1Jan1970 }
    ELSE IF v.PrintFmt = SPSS_FMT_DATE_TIME THEN { << >>, DateTime_1Jan1970_000001 }
    ELSE { Text_42, Text_word }

\* The position in the templates ts of the variable added last (0: none yet).
LastTemplate(ts) ==
    IF Len(Dict) = 0 THEN 0
    ELSE CHOOSE k \in 1..Len(ts) : cleanVarName(ts[k].Name) = Dict[Len(Dict)].Name

\* A caller adds some of the templates ts, in their order, at most max of them.
AddVarFrom(ts, max) ==
    /\ Len(Dict) < max
    /\ \E k \in (LastTemplate(ts) + 1)..Len(ts) : AddVar(ts[k])

\* A writer that no NativeSav wraps.
\* No function is called on its own.
NoFn == fnIn = << >> /\ fnOut = << >>

InitBare == InitWriter /\ nvDict = << >> /\ nvLengths = << >> /\ NoFn

(***************************************************************************)
(* Spec: the writer's operations over a sink that does not fail.           *)
(***************************************************************************)

Templates ==
    << [NumericVar(Name_age) EXCEPT !.Label = Text_label],
       DateVar(Name_dob, TRUE, Date_2Jan1970),
       DatetimeVar(Name_ts),
       StringVar(Name_code, 4) >>

MaxVars == 2
MaxCases == 1

Init == InitBare /\ IgnoreMissingVar \in BOOLEAN /\ faults = << >>

AddVarStep == AddVarFrom(Templates, MaxVars)

StartStep == Start(<< >>, 0)

SetVarStep ==
    /\ nCalls < MaxCases
    /\ \/ \E i \in 1..Len(Dict) : \E val \in ValuesFor(Dict[i]) : SetVar(Dict[i].Name, val)
       \/ SetVar(Name_none, Text_42)

ClearCaseStep == nCalls < MaxCases /\ ClearCase

WriteCaseStep == nCalls < MaxCases /\ WriteCase

Next ==
    \/ AddVarStep
    \/ StartStep
    \/ ClearCaseStep
    \/ SetVarStep
    \/ WriteCaseStep
    \/ Finish

Spec == Init /\ [][Next]_vars

(***************************************************************************)
(* SpecSeg: one string variable of any width up to the maximum (and one    *)
(* past it) is added.                                                      *)
(***************************************************************************)

InitSeg == InitBare /\ IgnoreMissingVar = FALSE /\ faults = << >>

AddSegVar ==
    /\ Len(Dict) = 0
    /\ \E t \in 0..(maxStringLength + 1) : AddVar(StringVar(Name_essay, t))

NextSeg == AddSegVar

SpecSeg == InitSeg /\ [][NextSeg]_vars

(***************************************************************************)
(* SpecDict: variables of any kind and name are added in any order.        *)
(***************************************************************************)

MaxDictVars == 2

DictNames == { Name_age, Name_ab, Name_a_b, Name_1abc, << >> }

DictWidths == { 0, 9, 256, 600 }

DictInputs ==
    { IF t = 0 THEN NumericVar(n) ELSE StringVar(n, t) :
        n \in DictNames, t \in DictWidths }

AddDictVar ==
    /\ Len(Dict) < MaxDictVars
    /\ \E v \in DictInputs : AddVar(v)

NextDict == AddDictVar

InitDict == InitBare /\ IgnoreMissingVar = FALSE /\ faults = << >>

SpecDict == InitDict /\ [][NextDict]_vars

(***************************************************************************)
(* SpecStart: dictionaries with very long strings whose names share their  *)
(* first five characters, and Start.                                       *)
(***************************************************************************)

StartTemplates ==
    << [NumericVar(Name_age) EXCEPT !.Label = Text_label],
       NumericVar(Name_1abc),
       StringVar(Name_code, 4),
       StringVar(Name_essay, 600),
       StringVar(Name_essay2, 300),
       StringVar(Name_q0001_other_1, 260),
       StringVar(Name_q0001_other_2, 260) >>

MaxStartVars == 2

AddStartVar == AddVarFrom(StartTemplates, MaxStartVars)

NextStart ==
    \/ AddStartVar
    \/ StartStep

SpecStart == Init /\ [][NextStart]_vars

(***************************************************************************)
(* SpecFaults: the writer's operations over a sink whose calls may fail.   *)
(* The 864-byte string makes Start leave the bufio.Writer nearly full, so  *)
(* that the second WriteCase reaches the sink; with the 1000-byte string   *)
(* Start itself reaches it.                                                *)
(***************************************************************************)

FaultTemplates == << StringVar(Name_essay, 864), StringVar(Name_essay2, 1000) >>

MaxFaultVars == 1
MaxFaultCases == 2
MaxFaults == 2

\* What the sink's calls return, one after another.
FaultSeqs == UNION { [1..n -> BOOLEAN] : n \in 0..MaxFaults }

InitFaults == InitBare /\ IgnoreMissingVar = FALSE /\ faults \in FaultSeqs

AddFaultVar == AddVarFrom(FaultTemplates, MaxFaultVars)

SetFaultVar ==
    /\ nCalls < MaxFaultCases
    /\ \E i \in 1..Len(Dict) : ~Dict[i].HasValue /\ SetVar(Dict[i].Name, Text_42)

WriteFaultCase == nCalls < MaxFaultCases /\ WriteCase

NextFaults ==
    \/ AddFaultVar
    \/ StartStep
    \/ SetFaultVar
    \/ WriteFaultCase
    \/ Finish

SpecFaults == InitFaults /\ [][NextFaults]_vars

(***************************************************************************)
(* SpecNative: NativeSav over declarations of every kind, with and without *)
(* a declared width.                                                       *)
(***************************************************************************)

MaxNativeVars == 2
MaxNativeCases == 1

NativeNames == << Name_age, Name_code, Name_dob >>

\* The declarations a caller may give the variable of a name.
NativeDecls(name) ==
    { NewDict(name, DictTypeNumeric, FALSE, 0, FALSE, << >>, FALSE, << >>),
      NewDict(name, DictTypeDate, FALSE, 0, FALSE, << >>, TRUE, Date_2Jan1970),
      NewDict(name, DictTypeDatetime, FALSE, 0, TRUE, Text_word, FALSE, << >>),
      NewDict(name, DictTypeString, FALSE, 0, FALSE, << >>, FALSE, << >>),
      NewDict(name, DictTypeString, TRUE, 0, FALSE, << >>, FALSE, << >>),
      NewDict(name, DictTypeString, TRUE, 4, TRUE, Txt_scale, FALSE, << >>) }

\* The dictionaries: the k-th declaration has the k-th name.
NativeDicts ==
    UNION { { d \in [1..n -> UNION { NativeDecls(NativeNames[k]) : k \in 1..n }] :
                \A k \in 1..n : d[k].Name = NativeNames[k] } : n \in 0..MaxNativeVars }

\* The values of a case.
NativeVals ==
    { << >>,
      << NewVal(Name_code, Text_word) >>,
      << NewVal(Name_code, << >>), NewVal(Name_age, << >>) >>,
      << NewVal(Name_age, Text_42), NewVal(Name_code, Text_word),
         NewVal(Name_dob, Date_1Jan1970) >> }

NativeCases == { << >> } \cup { << vals >> : vals \in NativeVals }

InitNative ==
    /\ InitWriter
    /\ IgnoreMissingVar = FALSE
    /\ faults = << >>
    /\ nvDict \in NativeDicts
    /\ nvLengths = << >>
    /\ NoFn

FindLengthsStep ==
    /\ nvLengths = << >>
    /\ ret.op = "none"
    /\ \E cases \in NativeCases : FindLengths(cases)

WriteValStep ==
    /\ nCalls < MaxNativeCases
    /\ \E vals \in NativeVals : WriteVal(vals)

NextNative ==
    \/ FindLengthsStep
    \/ WriteDict
    \/ WriteValStep
    \/ Close

SpecNative == InitNative /\ [][NextNative]_vars

(***************************************************************************)
(* SpecSet: SetVar and ClearCase on variables whose names cleaning keeps   *)
(* or changes, by names the dictionary holds and names it does not.        *)
(***************************************************************************)

SetTemplates == << NumericVar(Name_age), NumericVar(Name_a_b), StringVar(Name_1abc, 4) >>

MaxSetVars == 2

\* The names a caller may pass to SetVar.
SetNames == { Name_age, Name_a_b, Name_ab, Name_1abc, cleanVarName(Name_1abc), Name_none }

AddSetVar == AddVarFrom(SetTemplates, MaxSetVars)

SetAnyVar == \E n \in SetNames : \E val \in { Text_42, Text_word } : SetVar(n, val)

NextSet ==
    \/ AddSetVar
    \/ StartStep
    \/ SetAnyVar
    \/ ClearCase

SpecSet == Init /\ [][NextSet]_vars

(***************************************************************************)
(* SpecConv: ConvertIntToColumnName on every integer up to a bound.        *)
(***************************************************************************)

MaxColumnInt == 50000

\* A function is called on its own, on an argument out of args.
InitFn(args) ==
    /\ InitWriter
    /\ IgnoreMissingVar = FALSE
    /\ faults = << >>
    /\ nvDict = << >>
    /\ nvLengths = << >>
    /\ fnIn \in args
    /\ fnOut = << >>

\* The function returns out.
Returns(out) ==
    /\ fnOut = << >>
    /\ fnOut' = << out >>
    /\ UNCHANGED << writerVars, ioVars, histVars, nativeVars, fnIn, pc, ret >>

InitConv == InitFn(0..MaxColumnInt)

Convert == Returns(ConvertIntToColumnName(fnIn))

NextConv == Convert

SpecConv == InitConv /\ [][NextConv]_vars

(***************************************************************************)
(* SpecClean: cleanVarName on short strings over a small alphabet and on   *)
(* strings around the 64-character limit, applied once and then again to   *)
(* its own result.                                                         *)
(***************************************************************************)

MaxShortName == 3
MaxLongName == 66

\* 'a', 'Z', '1', ' ', '@', '.', '_'
NameAlphabet == { 97, 90, 49, 32, 64, 46, 95 }

ShortNames(max) == UNION { [1..k -> NameAlphabet] : k \in 0..max }

LongNames ==
    { p \o Repeat(c, l) :
        p \in ShortNames(1), c \in NameAlphabet, l \in 62..MaxLongName }

InitClean == InitFn(ShortNames(MaxShortName) \cup LongNames)

Clean ==
    /\ fnOut = << >>
    /\ fnOut' = << cleanVarName(fnIn) >>
    /\ UNCHANGED << writerVars, ioVars, histVars, nativeVars, fnIn, pc, ret >>

CleanAgain ==
    /\ Len(fnOut) = 1
    /\ fnOut' = Append(fnOut, cleanVarName(fnOut[1]))
    /\ UNCHANGED << writerVars, ioVars, histVars, nativeVars, fnIn, pc, ret >>

NextClean == Clean \/ CleanAgain

SpecClean == InitClean /\ [][NextClean]_vars

(***************************************************************************)
(* SpecStr: WriteCase's string branch on one string variable, for every    *)
(* type size up to a bound and the largest ones, and values shorter than,  *)
(* as long as and longer than the type size.                               *)
(***************************************************************************)

MaxTypeSize == 1100

\* Sizes past the bound: around 2^15, at a segment boundary (203 * 252 and
\* one more) and the largest ones.
LargeTypeSizes ==
    { 32767, 32768, 203 * 252, 203 * 252 + 1, maxStringLength - 1, maxStringLength }

TypeSizes == (1..MaxTypeSize) \cup LargeTypeSizes

ValueLens(t) == { 0, 1, 255, 256, t - 1, t, t + 1, t + 255 }

\* A value of n bytes in which a byte tells its place.
ValueOf(n) == [i \in 1..n |-> 1 + (i % 250)]

\* The variable as AddVar stores it, with the value SetVar sets.
StrVar(in) ==
    [AddVarVar(StringVar(Name_essay, in.T), 1, 0)
        EXCEPT !.Value = ValueOf(in.len), !.HasValue = TRUE]

InitStr == InitFn(UNION { { [T |-> t, len |-> l] : l \in ValueLens(t) } : t \in TypeSizes })

WriteStringValue == Returns(writeVar(1, StrVar(fnIn)))

NextStr == WriteStringValue

SpecStr == InitStr /\ [][NextStr]_vars

(***************************************************************************)
(* SpecVal: NativeSav over a few dictionaries, with several WriteVal calls *)
(* whose items name all, some or none of the variables.                    *)
(***************************************************************************)

MaxValCalls == 2

Decl_age == NewDict(Name_age, DictTypeNumeric, FALSE, 0, FALSE, << >>, FALSE, << >>)
Decl_code == NewDict(Name_code, DictTypeString, TRUE, 4, FALSE, << >>, TRUE, Text_label)
Decl_dob == NewDict(Name_dob, DictTypeDate, FALSE, 0, FALSE, << >>, TRUE, Date_2Jan1970)
Decl_ts == NewDict(Name_ts, DictTypeDatetime, FALSE, 0, FALSE, << >>, FALSE, << >>)

ValDicts ==
    { << Decl_age, Decl_code >>, << Decl_age, Decl_dob >>, << Decl_ts, Decl_code >>,
      << Decl_age, Decl_code, Decl_dob >> }

\* The items of a WriteVal call.
ValItems ==
    { << >>,
      << NewVal(Name_age, Text_42) >>,
      << NewVal(Name_code, Text_word) >>,
      << NewVal(Name_dob, Date_1Jan1970) >>,
      << NewVal(Name_ts, DateTime_1Jan1970_000001) >>,
      << NewVal(Name_age, Text_42), NewVal(Name_code, Text_word), NewVal(Name_age, << >>) >> }

InitVal ==
    /\ InitWriter
    /\ IgnoreMissingVar = FALSE
    /\ faults = << >>
    /\ nvDict \in ValDicts
    /\ nvLengths = << >>
    /\ NoFn

WriteValCall ==
    /\ nCalls < MaxValCalls
    /\ \E vals \in ValItems : WriteVal(vals)

NextVal ==
    \/ WriteDict
    \/ WriteValCall
    \/ Close

SpecVal == InitVal /\ [][NextVal]_vars

(***************************************************************************)
(* Properties.                                                             *)
(***************************************************************************)

\* Start returned after its last write.
StartDone ==
    /\ pc \in { "cases", "done" }
    /\ Len(recs) > 0
    /\ recs[Len(recs)] = "term.filler"

\* The int32 the sink holds at offset 80.
PatchedCount == FromLE32(SubSeq(file, 81, 84))

\* C1: after AddVar*, Start, WriteCase calls of which some may fail, and
\* Finish, the int32 Finish wrote to the sink at offset 80 is the number of
\* WriteCase calls that returned without error; a WriteCase that returns an
\* error leaves the case count as it was.
C1_CountPatched ==
    /\ [](Count = okCases)
    /\ []((pc = "done" /\ ~ret.err) => (Len(file) >= 84 /\ PatchedCount = okCases))
    /\ [][(ret'.op = "WriteCase" /\ ret'.err /\ nCalls' = nCalls + 1)
              => Count' = Count]_vars

\* C1, the first WriteCase returned nil, the second one an error, and Finish
\* wrote 1 at offset 80.
C1_Witness ==
    /\ pc = "done"
    /\ ~ret.err
    /\ nCalls = 2
    /\ okCases = 1
    /\ PatchedCount = 1

RECURSIVE SegWidthsRange(_, _, _)
SegWidthsRange(v, lo, hi) ==
    IF lo > hi THEN 0
    ELSE IF lo = hi THEN SegmentWidth(v, lo)
    ELSE SegWidthsRange(v, lo, (lo + hi) \div 2)
         + SegWidthsRange(v, ((lo + hi) \div 2) + 1, hi)

SegWidths(v) == SegWidthsRange(v, 0, v.Segments - 1)

NonFinal255(v) ==
    v.TypeSize > 255 => \A s \in 0..(v.Segments - 2) : SegmentWidth(v, s) = 255

\* C2 (as the code has it): for every variable added with type size T,
\* 0 <= T <= 51200, the segment widths sum to T + 3 * (Segments - 1), which is
\* T when T <= 255 (one segment), and when T > 255 every non-final segment
\* has width 255.
C2_SegmentWidths ==
    \A i \in 1..Len(Dict) :
        /\ SegWidths(Dict[i]) = Dict[i].TypeSize + 3 * (Dict[i].Segments - 1)
        /\ NonFinal255(Dict[i])

\* C2, a variable of type size 600 was added: three segments, 255 + 255 + 96.
C2_Witness ==
    \E i \in 1..Len(Dict) :
        /\ Dict[i].TypeSize = 600
        /\ Dict[i].Segments = 3
        /\ SegWidths(Dict[i]) = 606

\* C2 as stated: the segment widths of every variable sum to its type size.
C2_SumIsTypeSize ==
    \A i \in 1..Len(Dict) :
        /\ SegWidths(Dict[i]) = Dict[i].TypeSize
        /\ NonFinal255(Dict[i])

\* The nominal_case_size field of the header record items.
NominalCaseSize(items) ==
    FromLE32(items[CHOOSE i \in 1..Len(items) :
                       items[i].tag = "header.nominal_case_size"].bytes)

\* C3: after any sequence of AddVar calls the first variable has Index 1, each
\* later variable's Index is the previous one's plus the previous one's
\* elements, a variable of type size 0 occupies exactly one element, and the
\* next Index minus 1 is caseSize(), the nominal case size of the header.
C3_IndexContiguous ==
    /\ Len(Dict) > 0 => Dict[1].Index = 1
    /\ \A i \in 2..Len(Dict) :
           Dict[i].Index = Dict[i - 1].Index + SegElements(Dict[i - 1], 0)
    /\ \A i \in 1..Len(Dict) :
           Dict[i].TypeSize = 0 => SegElements(Dict[i], 0) = 1
    /\ Index - 1 = caseSize(Dict)
    /\ NominalCaseSize(headerRecord(Dict, << >>)) = Index - 1

\* C3, a 600-byte string (76 elements) was added and then a numeric variable.
C3_Witness ==
    /\ Len(Dict) = 2
    /\ Dict[1].TypeSize = 600
    /\ Dict[2].TypeSize = 0
    /\ Dict[2].Index = 77
    /\ Index = 78

\* C4 as stated: after AddVar calls that did not abort, no two variables of
\* the dictionary have the same cleaned Name.
C4_NamesDistinct ==
    \A i, j \in 1..Len(Dict) : i # j => Dict[i].Name # Dict[j].Name

\* The calls the last WriteCase made for the variable at position vi.
ElemsOf(vi) == SelectSeq(elems, LAMBDA e : e.var = vi)

\* v with the value WriteCase resolves for it set as its value.
Resolved(v) ==
    IF v.HasValue \/ v.HasDefault THEN [v EXCEPT !.Value = CaseVal(v), !.HasValue = TRUE]
    ELSE v

\* C5 as stated: WriteCase encodes, for every variable of every kind, the
\* value resolved by precedence (the value set, else the default, else
\* missing); a date with no value and a parseable default is encoded as the
\* default's timestamp.
C5_ResolvedValueEncoded ==
    (ret.op = "WriteCase" /\ ~ret.err) =>
        \A vi \in 1..Len(Dict) : ElemsOf(vi) = writeVar(vi, Resolved(Dict[vi]))

RECURSIVE ElementsPassed(_, _)
ElementsPassed(calls, i) ==
    IF i > Len(calls) THEN 0
    ELSE (IF calls[i].k = "direct" THEN 0 ELSE calls[i].n) + ElementsPassed(calls, i + 1)

\* C6 as stated: a date whose resolved value is empty is encoded as
\* system-missing through the compressor, WriteCase writes nothing into the
\* buffered sink outside the compressor, and every successful WriteCase
\* passes caseSize() elements to the compressor.
C6_EmptyDateCompressed ==
    (ret.op = "WriteCase" /\ ~ret.err) =>
        /\ \A i \in 1..Len(elems) : elems[i].k # "direct"
        /\ ElementsPassed(elems, 1) = caseSize(Dict)
        /\ \A vi \in 1..Len(Dict) :
               (/\ Dict[vi].PrintFmt = SPSS_FMT_DATE
                /\ Dict[vi].HasValue \/ Dict[vi].HasDefault
                /\ CaseVal(Dict[vi]) = << >>)
               => ElemsOf(vi) = writeMissing(vi)

\* C7 as stated: every variable of the dictionary WriteDict built has type
\* size 0 if it is numeric, date or datetime and type size > 0 if it is a
\* string, whatever width was declared or discovered.
C7_TypeSizeByKind ==
    \A i \in 1..Len(Dict) :
        IF Dict[i].Type = DictTypeString THEN Dict[i].TypeSize > 0
        ELSE Dict[i].TypeSize = 0

\* The decimal text s zero-padded on the left to l characters.
ZeroPadded(s, l) == Repeat(48, l - Len(s)) \o s

RECURSIVE VeryLongStated(_, _)
VeryLongStated(dict, i) ==
    IF i > Len(dict) THEN << >>
    ELSE (IF dict[i].Segments > 1
          THEN dict[i].ShortName \o << 61 >> \o ZeroPadded(Itoa(dict[i].TypeSize), 5)
               \o << 0, 9 >>
          ELSE << >>)
         \o VeryLongStated(dict, i + 1)

\* C8 as stated: Start emits the very-long-string record if and only if some
\* variable has more than one segment, and its payload is, per such variable
\* in dictionary order, short name, '=', the type size zero-padded to 5
\* characters, then the bytes 0x00 and 0x09.
C8_VeryLongPayload ==
    StartDone =>
        /\ (\E i \in 1..Len(fields) : fields[i].tag = "verylong.payload")
               <=> (\E vi \in 1..Len(Dict) : Dict[vi].Segments > 1)
        /\ \A i \in 1..Len(fields) :
               fields[i].tag = "verylong.payload"
                   => fields[i].bytes = VeryLongStated(Dict, 1)

IsNameField(it) == it.tag = "var.name"

\* The name fields of the variable records Start wrote, in order.
NameFields == SelectSeq(fields, IsNameField)

NoLower(s) == \A i \in 1..Len(s) : ~IsLower(s[i])

\* C9: after Start on any dictionary, the short names in the name fields of
\* the variable records of all segments are pairwise distinct, each is at
\* most 8 bytes long, and each is uppercase or begins with '@'.
C9_ShortNames ==
    /\ \A i, j \in 1..Len(NameFields) :
           i # j => NameFields[i].bytes # NameFields[j].bytes
    /\ \A i \in 1..Len(NameFields) :
           \E k \in DOMAIN ShortMap :
               /\ NameFields[i].bytes = stob(k, 8)
               /\ Len(k) <= 8
               /\ NoLower(k) \/ k[1] = 64
    /\ StartDone => Len(NameFields) = VarCount(Dict)

\* C9, Start wrote the five records of two very long strings, "essay" and
\* "essay2", whose names share their first five characters.
C9_Witness ==
    /\ StartDone
    /\ Len(Dict) = 2
    /\ Dict[1].Segments = 3
    /\ Dict[2].Segments = 2
    /\ Dict[1].Name = Name_essay
    /\ Dict[2].Name = Name_essay2
    /\ Len(NameFields) = 5

\* C10 as stated: an operation during which a call on the sink failed
\* returns an error to its caller.
C10_FailuresPropagate ==
    [][(\E i \in 1..(Len(faults) - Len(faults')) : ~faults[i]) => ret'.err]_vars

\* The positions of the variables whose Name is n.
Named(n) == { i \in 1..Len(Dict) : Dict[i].Name = n }

\* C11 as stated: SetVar(name, value) finds the variable by the Name the
\* dictionary holds after AddVar, sets Value and HasValue of exactly that
\* variable and changes nothing else; an unknown name changes nothing when
\* IgnoreMissingVar is true and is fatal when it is false.
C11_SetVarByLongName ==
    [][ret'.op = "SetVar" =>
          /\ UNCHANGED << DictMap, ShortMap, Count, Index, ColumnIndex,
                          IgnoreMissingVar, ioVars, histVars, nativeVars, fnVars >>
          /\ IF Named(ret'.name) # {}
             THEN /\ ~ret'.err
                  /\ pc' = pc
                  /\ \E i \in Named(ret'.name) :
                         Dict' = [Dict EXCEPT ![i].Value = ret'.value,
                                              ![i].HasValue = TRUE]
             ELSE /\ Dict' = Dict
                  /\ ret'.err = ~IgnoreMissingVar
                  /\ pc' = IF IgnoreMissingVar THEN pc ELSE "fatal"]_vars

\* The value of a base-36 digit character, or -1.
Base36Digit(c) ==
    IF IsDigit(c) THEN c - 48 ELSE IF IsLower(c) THEN c - 97 + 10 ELSE -1

\* The number a string of base-36 digits denotes, most significant first.
RECURSIVE Base36Value(_, _)
Base36Value(str, acc) ==
    IF str = << >> THEN acc
    ELSE Base36Value(Tail(str), 36 * acc + Base36Digit(Head(str)))

Txt_z == << 122 >>
Txt_10 == << 49, 48 >>
Txt_zz == << 122, 122 >>
Txt_100 == << 49, 48, 48 >>

\* C12: for every non-negative integer n, ConvertIntToColumnName(n) is the
\* base-36 representation of n with digits 0-9 then a-z, most significant
\* digit first and no leading zero (0 gives "0"); 35 gives "z", 36 "10",
\* 1295 "zz" and 1296 "100".
C12_Base36 ==
    fnOut # << >> =>
        /\ Len(fnOut[1]) >= 1
        /\ \A i \in 1..Len(fnOut[1]) : Base36Digit(fnOut[1][i]) >= 0
        /\ Base36Value(fnOut[1], 0) = fnIn
        /\ Len(fnOut[1]) > 1 => fnOut[1][1] # 48
        /\ fnIn = 0 => fnOut[1] = << 48 >>
        /\ fnIn = 35 => fnOut[1] = Txt_z
        /\ fnIn = 36 => fnOut[1] = Txt_10
        /\ fnIn = 1295 => fnOut[1] = Txt_zz
        /\ fnIn = 1296 => fnOut[1] = Txt_100

\* C12, ConvertIntToColumnName(1296) returned "100".
C12_Witness == fnIn = 1296 /\ fnOut = << Txt_100 >>

IsLetter(c) == IsLower(c) \/ IsUpper(c)

Txt_illegal == << 105, 108, 108, 101, 103, 97, 108 >>

\* What the claim says cleanVarName(n) is: n without the disallowed
\* characters, or "illegal" if nothing remains, prefixed with '@' if that
\* does not start with a letter, cut to 64.
CleanedAsStated(n, kept) ==
    SubSeq((IF IsLetter((IF kept = << >> THEN Txt_illegal ELSE kept)[1])
            THEN << >> ELSE << 64 >>)
           \o (IF kept = << >> THEN Txt_illegal ELSE kept), 1,
           Min(64, Len(kept) + (IF kept = << >> THEN 7
                                ELSE IF IsLetter(kept[1]) THEN 0 ELSE 1)))

\* C13: cleanVarName returns a non-empty string of at most 64 characters
\* whose first character is a letter or '@' and whose other characters are
\* in [A-Za-z0-9#$_.]; it is the input without the disallowed characters
\* (or "illegal"), prefixed with '@' if that does not start with a letter,
\* cut to 64; and applying cleanVarName to its result returns the result.
C13_CleanVarName ==
    /\ fnOut # << >> =>
        /\ Len(fnOut[1]) >= 1
        /\ Len(fnOut[1]) <= 64
        /\ IsLetter(fnOut[1][1]) \/ fnOut[1][1] = 64
        /\ \A i \in 2..Len(fnOut[1]) : IsNameChar(fnOut[1][i])
        /\ fnOut[1] = CleanedAsStated(fnIn, SelectSeq(fnIn, IsNameChar))
    /\ Len(fnOut) = 2 => fnOut[2] = fnOut[1]

\* C13, a name of more than 64 characters that starts with a digit was
\* cleaned twice: it got the '@' prefix and was cut to 64.
C13_Witness ==
    /\ Len(fnIn) > 64
    /\ IsDigit(fnIn[1])
    /\ Len(fnOut) = 2
    /\ fnOut[1][1] = 64
    /\ Len(fnOut[1]) = 64

\* The bytes the compressor's Flush hands to the bufio.Writer.
PendingBlock == IF bcOps = << >> THEN 0 ELSE 8 + Len(bcData)

\* The sink's offset after the first n of the calls an operation made on it.
DeliveredTo(calls, n) == IF n = 0 THEN pos ELSE calls[n].at + calls[n].n

\* C14: Finish flushes the compressor, flushes the byte buffer, seeks to
\* offset 80 and writes the case count directly to the sink, in this order:
\* every buffered byte, the compressor's last block included, is delivered
\* before the seek, the write of the count is the last call on the sink, and
\* the four bytes at offset 80 are the count and not the placeholder.
C14_FinishOrder ==
    /\ [][ret'.op = "Finish" =>
            /\ \E s \in 1..Len(sinkLog') :
                /\ sinkLog'[s] = SinkCall("Seek", 80, 0, sinkLog'[s].ok)
                /\ \A i \in 1..(s - 1) :
                    /\ sinkLog'[i].call = "Write"
                    /\ sinkLog'[i].at = DeliveredTo(sinkLog', i - 1)
                /\ ~werr' =>
                      DeliveredTo(sinkLog', s - 1) = pos + Len(buf) + PendingBlock
                /\ IF sinkLog'[s].ok
                   THEN /\ Len(sinkLog') = s + 1
                        /\ sinkLog'[s + 1] = SinkCall("Write", 80, 4, sinkLog'[s + 1].ok)
                   ELSE Len(sinkLog') = s
            /\ bcOps' = << >>
            /\ bcData' = << >>
            /\ ~werr' => buf' = << >>
            /\ ~ret'.err => SubSeq(file', 81, 84) = LE32(Count)]_vars
    /\ [](pc = "done" => (bcOps = << >> /\ (werr \/ buf = << >>)))

\* C14, Finish after a case: the buffer, holding the header with its
\* placeholder and the case, went to the sink, then the seek, then the count.
C14_Witness ==
    /\ ret.op = "Finish"
    /\ Len(Dict) >= 1
    /\ ~ret.err
    /\ okCases >= 1
    /\ Len(sinkLog) = 3
    /\ sinkLog[1].call = "Write"
    /\ sinkLog[1].ok
    /\ sinkLog[3] = SinkCall("Write", 80, 4, TRUE)
    /\ PatchedCount = okCases

\* The fields with this tag that Start wrote, in order.
Written(tag) == SelectSeq(fields, LAMBDA it : it.tag = tag)

\* The continuation records the claim states for v's segments from seg on.
RECURSIVE ContinuationsStated(_, _)
ContinuationsStated(v, seg) ==
    IF seg >= v.Segments THEN 0
    ELSE (IF SegmentWidth(v, seg) > 8 THEN elementCount(SegmentWidth(v, seg)) - 1 ELSE 0)
         + ContinuationsStated(v, seg + 1)

RECURSIVE ContinuationsOfDict(_, _)
ContinuationsOfDict(dict, i) ==
    IF i > Len(dict) THEN 0
    ELSE ContinuationsStated(dict[i], 0) + ContinuationsOfDict(dict, i + 1)

\* C15: the records of rec_type 2 that Start writes, one per segment plus
\* elementCount(width) - 1 continuation records of type -1 for each segment
\* of width > 8, are as many as the nominal_case_size written in the header.
C15_RecordPerElement ==
    StartDone =>
        /\ Len(Written("header.nominal_case_size")) = 1
        /\ \A i \in 1..Len(fields) :
               /\ fields[i].tag \in { "var.rec_type", "cont.rec_type" }
                      => fields[i].bytes = LE32(2)
               /\ fields[i].tag = "cont.type" => fields[i].bytes = LE32(-1)
        /\ Len(Written("var.rec_type")) = VarCount(Dict)
        /\ Len(Written("cont.rec_type")) = ContinuationsOfDict(Dict, 1)
        /\ Len(Written("cont.type")) = Len(Written("cont.rec_type"))
        /\ Len(Written("var.rec_type")) + Len(Written("cont.rec_type"))
               = FromLE32(Written("header.nominal_case_size")[1].bytes)

\* C15, Start on a numeric variable and a 600-byte string: 4 variable
\* records, 73 continuation records, nominal case size 77.
C15_Witness ==
    /\ StartDone
    /\ Len(Dict) = 2
    /\ Dict[1].TypeSize = 0
    /\ Dict[2].TypeSize = 600
    /\ Len(Written("var.rec_type")) = 4
    /\ Len(Written("cont.rec_type")) = 73
    /\ Written("header.nominal_case_size")[1].bytes = LE32(77)

\* The slices of the calls lo..hi, one after another.
RECURSIVE SlicesJoined(_, _, _)
SlicesJoined(calls, lo, hi) ==
    IF lo > hi THEN << >>
    ELSE IF lo = hi THEN calls[lo].p
    ELSE SlicesJoined(calls, lo, (lo + hi) \div 2)
         \o SlicesJoined(calls, ((lo + hi) \div 2) + 1, hi)

\* C16: for a string variable WriteCase cuts the value to the type size and
\* hands it to the compressor in 255-byte slices, one per segment: the
\* slices joined are the cut value, and each slice is no longer than
\* 8 * elementCount(SegmentWidth(s)), the chunks of its segment.
C16_SlicesKeepValue ==
    fnOut # << >> =>
        /\ Len(fnOut[1]) = SegmentsOf(fnIn.T)
        /\ SlicesJoined(fnOut[1], 1, Len(fnOut[1]))
               = SubSeq(ValueOf(fnIn.len), 1, Min(fnIn.len, fnIn.T))
        /\ \A i \in 1..Len(fnOut[1]) :
               /\ fnOut[1][i].k = "string"
               /\ fnOut[1][i].n = elementCount(SegmentWidth(StrVar(fnIn), i - 1))
               /\ Len(fnOut[1][i].p) <= 8 * fnOut[1][i].n
               /\ Len(fnOut[1][i].p) <= 255
               /\ (i < Len(fnOut[1]) /\ Len(fnOut[1][i + 1].p) > 0)
                      => Len(fnOut[1][i].p) = 255

\* C16, a value longer than the type size 600 was cut and written as the
\* slices of 255, 255 and 90 bytes.
C16_Witness ==
    /\ fnOut # << >>
    /\ fnIn = [T |-> 600, len |-> 601]
    /\ Len(fnOut[1]) = 3
    /\ Len(fnOut[1][1].p) = 255
    /\ Len(fnOut[1][2].p) = 255
    /\ Len(fnOut[1][3].p) = 90

\* The place of a record in the order the claim states, by the tag of the
\* record's first write (0: not the first write of a record).
RecordRank(tag) ==
    IF tag = "header.rec_type" THEN 1
    ELSE IF tag \in { "var.rec_type", "cont.rec_type" } THEN 2
    ELSE IF tag \in { "labels.rec_type", "labelvars.rec_type" } THEN 3
    ELSE IF tag = "intinfo.rec_type" THEN 4
    ELSE IF tag = "floatinfo.rec_type" THEN 5
    ELSE IF tag = "display.rec_type" THEN 6
    ELSE IF tag = "longnames.rec_type" THEN 7
    ELSE IF tag = "verylong.rec_type" THEN 8
    ELSE IF tag = "encoding.rec_type" THEN 9
    ELSE IF tag = "longlabels.rec_type" THEN 10
    ELSE IF tag = "term.rec_type" THEN 11
    ELSE 0

\* The records Start wrote, in order, each by its rank.
RecordRanks ==
    LET starts == SelectSeq(recs, LAMBDA t : RecordRank(t) > 0)
    IN  [i \in 1..Len(starts) |-> RecordRank(starts[i])]

\* How many records of rank r Start wrote.
RecordsOfRank(r) == Cardinality({ i \in 1..Len(RecordRanks) : RecordRanks[i] = r })

\* The bytes written so far, delivered or still buffered.
Stream == file \o buf

\* The opcodes the calls before the i-th put into the compressor's block.
RECURSIVE OpsBefore(_, _)
OpsBefore(calls, i) == IF i <= 1 THEN 0 ELSE calls[i - 1].n + OpsBefore(calls, i - 1)

\* The records of Start are in the stated order, and a Start that failed
\* did not reach the termination record.
StartInOrder ==
    /\ \A i \in 1..Len(RecordRanks) :
           /\ i = 1 => RecordRanks[i] = 1
           /\ i > 1 => RecordRanks[i] >= RecordRanks[i - 1]
    /\ \A r \in { 1, 4, 5, 6, 7, 8, 9, 10, 11 } : RecordsOfRank(r) <= 1
    /\ StartDone =>
           /\ \A r \in { 1, 4, 5, 6, 7, 9, 11 } : RecordsOfRank(r) = 1
           /\ RecordsOfRank(8) = 1 <=> \E vi \in 1..Len(Dict) : Dict[vi].Segments > 1
           /\ recs[Len(recs) - 1] = "term.rec_type"
           /\ Written("term.rec_type")[1].bytes = LE32(999)
           /\ Written("term.filler")[1].bytes = LE32(0)
           /\ Written("header.ncases")[1].bytes = LE32(-1)
    /\ (StartDone /\ nCalls = 0 /\ pc = "cases" /\ ~werr) =>
           /\ SubSeq(Stream, 1, 4) = Txt_FL2
           /\ SubSeq(Stream, 81, 84) = LE32(-1)
           /\ SubSeq(Stream, 177, 180) = LE32(IF Len(Dict) > 0 THEN 2 ELSE 7)
    /\ (ret.op = "Start" /\ ret.err) => ~StartDone

\* The calls of a WriteCase are in dictionary order, one variable after
\* another, and every variable has its calls when the case was written.
CallsInOrder ==
    /\ \A i \in 2..Len(elems) : elems[i].var >= elems[i - 1].var
    /\ (ret.op = "WriteCase" /\ ~ret.err) =>
           \A vi \in 1..Len(Dict) : \E i \in 1..Len(elems) : elems[i].var = vi

\* C17 as stated: Start emits the header (176 bytes, -1 at offset 80), the
\* variable records, value labels, integer info, floating-point info,
\* display parameters, long names, very long strings (if any), encoding,
\* long string labels (if any) and the termination record (999, 0), in
\* this order and none after one that failed; the elements of the cases
\* follow in dictionary order within a case and in call order across cases:
\* no element enters the stream while the compressor still holds opcodes of
\* elements before it.
C17_EmitOrder ==
    /\ []StartInOrder
    /\ []CallsInOrder
    /\ [][ret'.op = "WriteCase" =>
            \A i \in 1..Len(elems') :
                elems'[i].k = "direct"
                    => (Len(bcOps) + OpsBefore(elems', i)) % 8 = 0]_vars

\* The calls in es for the variable at position vi.
ElemsIn(es, vi) == SelectSeq(es, LAMBDA e : e.var = vi)

\* The items of vals that name the variable at position vi.
ItemsFor(vals, vi) ==
    { j \in 1..Len(vals) : vals[j].Name \in DOMAIN DictMap /\ DictMap[vals[j].Name] = vi }

\* The last of the items js.
LastItem(js) == CHOOSE j \in js : \A k \in js : k <= j

\* v encoded as missing, and v encoded with the value val.
AsMissing(vi, v) ==
    writeVar(vi, [v EXCEPT !.Value = << >>, !.HasValue = FALSE, !.HasDefault = FALSE])

AsValue(vi, v, val) == writeVar(vi, [v EXCEPT !.Value = val, !.HasValue = TRUE])

\* C18: WriteVal clears the values before it sets those of its items: a
\* variable none of the items names is left without a value and is encoded
\* from its default or as missing, whatever an earlier call set; a variable
\* the items name holds the value of the last item naming it and is encoded
\* from that value.
C18_ValuesCleared ==
    [][(ret'.op = "WriteVal" /\ pc' # "fatal") =>
          \A vi \in 1..Len(Dict) :
              IF ItemsFor(ret'.vals, vi) = {}
              THEN /\ ~Dict'[vi].HasValue
                   /\ Dict'[vi].Value = << >>
                   /\ ElemsIn(elems', vi)
                          \in { AsMissing(vi, Dict[vi]),
                                AsValue(vi, Dict[vi], Dict[vi].Default) }
                   /\ ~Dict[vi].HasDefault => ElemsIn(elems', vi) = AsMissing(vi, Dict[vi])
              ELSE /\ Dict'[vi].HasValue
                   /\ Dict'[vi].Value = ret'.vals[LastItem(ItemsFor(ret'.vals, vi))].Value
                   /\ ElemsIn(elems', vi) = AsValue(vi, Dict[vi], Dict'[vi].Value)]_vars

\* C18, the first WriteVal set "age" to "42" (opcode 142 in the compressor's
\* block) and the second one, which did not name it, encoded it as missing.
C18_Witness ==
    /\ ret.op = "WriteVal"
    /\ \E i \in 1..Len(bcOps) : bcOps[i] = 142
    /\ nCalls = 2
    /\ okCases = 2
    /\ Count = 2
    /\ Name_age \in DOMAIN DictMap
    /\ ItemsFor(ret.vals, DictMap[Name_age]) = {}
    /\ ElemsIn(elems, DictMap[Name_age]) = writeMissing(DictMap[Name_age])

====
